---- MODULE Spec2Model ----
(***************************************************************************)
(* Criticality scoring, ranking and field-data reconciliation of REDE_SUB. *)
(*                                                                         *)
(* The scripts are linear batch jobs over pandas DataFrames.  A DataFrame  *)
(* is modelled as a sequence of rows, a row as a function from column      *)
(* names to cell values.  A float64 cell is modelled as an exact rational  *)
(* or one of the IEEE special values NaN, +inf, -inf, with the arithmetic  *)
(* and comparison rules numpy applies to them (x/0, NaN propagation, every *)
(* comparison with NaN false).  Rounding error of float64 is not modelled. *)
(***************************************************************************)
EXTENDS Integers, Sequences, FiniteSets, TLC

(***************************************************************************)
(* Bounds of the model.                                                    *)
(***************************************************************************)
\* number of rows of the historical dataset (historico_light.csv)
NumRows == 3
\* a dataset lies at most this many steps above the smallest values, summed
\* over all its cells
MaxTotal == 4

(***************************************************************************)
(* float64 cells.                                                          *)
(***************************************************************************)
AbsInt(i) == IF i < 0 THEN -i ELSE i

RECURSIVE GCD(_, _)
GCD(a, b) == IF b = 0 THEN a ELSE GCD(b, a % b)

\* the rational n/d (d # 0) in lowest terms with a positive denominator
Num(n, d) ==
    LET g == GCD(AbsInt(n), AbsInt(d))
        s == IF d < 0 THEN -1 ELSE 1
    IN  [k |-> "num", n |-> (s * n) \div g, d |-> (s * d) \div g]

NaN == [k |-> "nan", n |-> 0, d |-> 1]
PosInf == [k |-> "inf", n |-> 1, d |-> 1]
NegInf == [k |-> "inf", n |-> -1, d |-> 1]

IsNum(x) == x.k = "num"
IsNaN(x) == x.k = "nan"
IsInf(x) == x.k = "inf"

\* a decimal literal with one fractional digit, t tenths (0.4 is Dec(4))
Dec(t) == Num(t, 10)
\* a decimal literal with two fractional digits, h hundredths
Cent(h) == Num(h, 100)
FZero == Num(0, 1)
FOne == Num(1, 1)

Sign(x) == IF x.n > 0 THEN 1 ELSE IF x.n < 0 THEN -1 ELSE 0

FNeg(x) == IF IsNaN(x) THEN NaN ELSE [x EXCEPT !.n = -x.n]

FAdd(x, y) ==
    IF IsNaN(x) \/ IsNaN(y) THEN NaN
    ELSE IF IsInf(x) /\ IsInf(y) THEN (IF x.n = y.n THEN x ELSE NaN)
    ELSE IF IsInf(x) THEN x
    ELSE IF IsInf(y) THEN y
    ELSE Num(x.n * y.d + y.n * x.d, x.d * y.d)

FSub(x, y) == FAdd(x, FNeg(y))

FMul(x, y) ==
    IF IsNaN(x) \/ IsNaN(y) THEN NaN
    ELSE IF IsInf(x) \/ IsInf(y)
         THEN (IF Sign(x) * Sign(y) = 0 THEN NaN
               ELSE IF Sign(x) * Sign(y) > 0 THEN PosInf ELSE NegInf)
    ELSE Num(x.n * y.n, x.d * y.d)

\* numpy true division: x/0 is +-inf for x # 0 and NaN for x = 0
FDiv(x, y) ==
    IF IsNaN(x) \/ IsNaN(y) THEN NaN
    ELSE IF IsInf(x) /\ IsInf(y) THEN NaN
    ELSE IF IsInf(x) THEN (IF Sign(y) < 0 THEN FNeg(x) ELSE x)
    ELSE IF IsInf(y) THEN FZero
    ELSE IF y.n = 0
         THEN (IF x.n = 0 THEN NaN ELSE IF x.n > 0 THEN PosInf ELSE NegInf)
    ELSE Num(x.n * y.d, x.d * y.n)

FAbs(x) == IF IsNaN(x) THEN NaN ELSE [x EXCEPT !.n = AbsInt(x.n)]

\* x < y; false when either side is NaN
FLt(x, y) ==
    IF IsNaN(x) \/ IsNaN(y) THEN FALSE
    ELSE IF IsInf(x) /\ IsInf(y) THEN x.n < y.n
    ELSE IF IsInf(x) THEN x.n < 0
    ELSE IF IsInf(y) THEN y.n > 0
    ELSE x.n * y.d < y.n * x.d

FGt(x, y) == FLt(y, x)
FEq(x, y) == ~IsNaN(x) /\ ~IsNaN(y) /\ x = y
FLe(x, y) == FLt(x, y) \/ FEq(x, y)
FGe(x, y) == FLe(y, x)

(***************************************************************************)
(* DataFrame helpers.                                                      *)
(***************************************************************************)
Range(s) == {s[i] : i \in DOMAIN s}

\* df[col] = values: assigns a column, adding it when it is new
SetColumn(frame, col, values) ==
    [i \in DOMAIN frame |->
        [c \in (DOMAIN frame[i]) \cup {col} |->
            IF c = col THEN values[i] ELSE frame[i][c]]]

Column(frame, col) == [i \in DOMAIN frame |-> frame[i][col]]

\* Series.min() / Series.max(): NaN cells are skipped, NaN when none is left
SeriesMin(column) ==
    LET vals == {column[i] : i \in DOMAIN column} \ {NaN}
    IN  IF vals = {} THEN NaN
        ELSE CHOOSE m \in vals : \A v \in vals : FLe(m, v)

SeriesMax(column) ==
    LET vals == {column[i] : i \in DOMAIN column} \ {NaN}
    IN  IF vals = {} THEN NaN
        ELSE CHOOSE m \in vals : \A v \in vals : FGe(m, v)


\* df.head(n)
HeadRows(frame, n) == SubSeq(frame, 1, IF Len(frame) < n THEN Len(frame) ELSE n)

\* The row orders df.sort_values(by=col, ascending=False) can return.  pandas
\* sorts with kind="quicksort", which is not a stable sort: rows with a score
\* come first in non-increasing order of col, rows that tie in any relative
\* order; rows whose col is NaN come last (na_position="last") in row order.
SortOrdersAscending(frame, col) ==
    {p \in Permutations(DOMAIN frame) :
        \A i, j \in DOMAIN frame :
            i < j =>
                LET a == frame[p[i]][col]
                    b == frame[p[j]][col]
                IN  /\ IsNaN(a) => IsNaN(b)
                    /\ (~IsNaN(a) /\ ~IsNaN(b)) => FLe(a, b)
                    /\ (IsNaN(a) /\ IsNaN(b)) => p[i] < p[j]}

SortOrders(frame, col) ==
    {p \in Permutations(DOMAIN frame) :
        \A i, j \in DOMAIN frame :
            i < j =>
                LET a == frame[p[i]][col]
                    b == frame[p[j]][col]
                IN  /\ IsNaN(a) => IsNaN(b)
                    /\ (~IsNaN(a) /\ ~IsNaN(b)) => FGe(a, b)
                    /\ (IsNaN(a) /\ IsNaN(b)) => p[i] < p[j]}

Reorder(frame, p) == [i \in DOMAIN frame |-> frame[p[i]]]

(***************************************************************************)
(* ep1_sp2_mod_criticidade.py: normalisation, score, scenarios, rankings.  *)
(***************************************************************************)
VARIABLES
    historico,          \* the rows read from historico_light.csv
    df,                 \* the module-level DataFrame
    cenarios,           \* the scenario names in the order the dict yields them
    ativos_criticos,    \* the top-10 frame of each iteration of the ranking loop
    ativos_top,         \* the top-10 frame under the primary score
    pc,                 \* position in the script
    it,                 \* index of the next scenario in the running loop
    weights             \* the weight dict handed to calculate_criticality

critvars == <<historico, df, cenarios, ativos_criticos, ativos_top, pc, it>>

VARIABLES
    script,             \* the script that is run
    field_file,         \* dados_campo.csv
    matriz_file,        \* the prioritisation matrix file
    feedback_file,      \* the feedback file
    consolidated,       \* the frame written to dados_consolidados.csv
    resultado           \* the frames the later steps of the script write

campovars ==
    <<script, field_file, matriz_file, feedback_file, consolidated, resultado>>

VARIABLES
    sample_size,        \* the sample size of the last call of stratified_sampling
    sampled_df,         \* the sample it returned
    rng                 \* what the generator seeded with 42 has been seen to draw

amostravars == <<sample_size, sampled_df, rng>>

VARIABLES
    fontes,             \* the source files ep2_base_csv.csv, .xlsx and .json
    consolidated_df     \* what load_and_consolidate_data returned

coletavars == <<fontes, consolidated_df>>

\* no source has been read
ColetaIdle ==
    /\ fontes = <<>>
    /\ consolidated_df = <<>>

VARIABLES
    callbacks           \* the callbacks of the dashboard that are being served

painelvars == <<callbacks>>

\* no callback is being served
PainelIdle == callbacks = <<>>

\* no sample has been drawn
AmostraIdle ==
    /\ sample_size = 0
    /\ sampled_df = <<>>
    /\ rng = <<>>

\* a path with no file, and a CSV file with its rows
NoFile == [exists |-> FALSE, rows |-> <<>>]
File(rows) == [exists |-> TRUE, rows |-> rows]

\* the scripts of episode 1 and 3 use none of the field-data files
CampoIdle ==
    /\ script = "none"
    /\ field_file = NoFile
    /\ matriz_file = NoFile
    /\ feedback_file = NoFile
    /\ consolidated = <<>>
    /\ resultado = <<>>

RawColumns ==
    <<"Frequencia_Falhas", "Tempo_Operacao", "Impacto_DEC_FEC",
      "Numero_Clientes_Afetados">>

NormName(col) ==
    CASE col = "Frequencia_Falhas" -> "Frequencia_Falhas_Norm"
      [] col = "Tempo_Operacao" -> "Tempo_Operacao_Norm"
      [] col = "Impacto_DEC_FEC" -> "Impacto_DEC_FEC_Norm"
      [] col = "Numero_Clientes_Afetados" -> "Numero_Clientes_Afetados_Norm"

NormColumns == [i \in DOMAIN RawColumns |-> NormName(RawColumns[i])]

\* A cell of the dataset is written as a number of steps above the smallest
\* value generate_simulated_data draws for its column: failures 0, 1, 2, ...,
\* years 0.5, 1.5, ..., DEC/FEC 0, 1, ..., customers 50, 100, 150, ...
RawValue(col, steps) ==
    CASE col = "Frequencia_Falhas" -> Num(steps, 1)
      [] col = "Tempo_Operacao" -> Num(2 * steps + 1, 2)
      [] col = "Impacto_DEC_FEC" -> Num(steps, 1)
      [] col = "Numero_Clientes_Afetados" -> Num(50 * (steps + 1), 1)

RowSteps(r) ==
    r["Frequencia_Falhas"] + r["Tempo_Operacao"] + r["Impacto_DEC_FEC"]
        + r["Numero_Clientes_Afetados"]

RowKey(r) ==
    ((r["Frequencia_Falhas"] * (MaxTotal + 1) + r["Tempo_Operacao"])
        * (MaxTotal + 1) + r["Impacto_DEC_FEC"]) * (MaxTotal + 1)
    + r["Numero_Clientes_Afetados"]

\* the rows of at most budget steps
RowSet(budget) ==
    {r \in [Range(RawColumns) -> 0..budget] : RowSteps(r) <= budget}

\* The datasets of n rows and at most budget steps.  Every property checked
\* here is about the rows as a collection and about their positions relative
\* to each other, so of all the orders in which a file can list the same rows
\* only one is kept: the one that lists them by non-decreasing RowKey.
RECURSIVE DatasetsFrom(_, _, _)
DatasetsFrom(n, budget, least) ==
    IF n = 0 THEN {<<>>}
    ELSE UNION {
            {<<r>> \o rest :
                rest \in DatasetsFrom(n - 1, budget - RowSteps(r), RowKey(r))} :
            r \in {q \in RowSet(budget) : RowKey(q) >= least}}

Datasets == DatasetsFrom(NumRows, MaxTotal, 0)

\* pd.read_csv(data_path): row i carries the asset id A-000i
ReadCsv(rows) ==
    [i \in DOMAIN rows |->
        [c \in {"ID_Ativo"} \cup Range(RawColumns) |->
            IF c = "ID_Ativo" THEN i ELSE RawValue(c, rows[i][c])]]

normalize_ratio(column) ==
    [i \in DOMAIN column |-> FDiv(column[i], SeriesMax(column))]

normalize(column) ==
    LET lo == SeriesMin(column)
        hi == SeriesMax(column)
    IN  [i \in DOMAIN column |-> FDiv(FSub(column[i], lo), FSub(hi, lo))]

\* lines 60-63
NormalizeAll(frame) ==
    LET step(f, col) == SetColumn(f, NormName(col), normalize(Column(f, col)))
    IN  step(step(step(step(frame, "Frequencia_Falhas"), "Tempo_Operacao"),
                  "Impacto_DEC_FEC"), "Numero_Clientes_Afetados")

\* a weight dict is the sequence of its (var, peso) items in insertion order
pesos ==
    << <<"Frequencia_Falhas_Norm", Dec(4)>>,
       <<"Tempo_Operacao_Norm", Dec(2)>>,
       <<"Impacto_DEC_FEC_Norm", Dec(3)>>,
       <<"Numero_Clientes_Afetados_Norm", Dec(1)>> >>

CenarioNames == {"Cenário 1", "Cenário 2"}

\* the values of the dict cenarios of lines 89-92
CenarioPesos(cenario) ==
    CASE cenario = "Cenário 1" ->
            << <<"Frequencia_Falhas_Norm", Dec(5)>>,
               <<"Tempo_Operacao_Norm", Dec(1)>>,
               <<"Impacto_DEC_FEC_Norm", Dec(3)>>,
               <<"Numero_Clientes_Afetados_Norm", Dec(1)>> >>
      [] cenario = "Cenário 2" ->
            << <<"Frequencia_Falhas_Norm", Dec(3)>>,
               <<"Tempo_Operacao_Norm", Dec(3)>>,
               <<"Impacto_DEC_FEC_Norm", Dec(3)>>,
               <<"Numero_Clientes_Afetados_Norm", Dec(1)>> >>

\* f"Criticidade_{cenario}"
CenarioColumn(cenario) ==
    CASE cenario = "Cenário 1" -> "Criticidade_Cenário 1"
      [] cenario = "Cenário 2" -> "Criticidade_Cenário 2"

\* sum(generator): Python's sum starts from 0 and adds the items in order
RECURSIVE SumSeq(_)
SumSeq(s) ==
    IF s = <<>> THEN FZero
    ELSE FAdd(SumSeq(SubSeq(s, 1, Len(s) - 1)), s[Len(s)])

calcular_criticidade(row, ps) ==
    SumSeq([k \in DOMAIN ps |-> FMul(row[ps[k][1]], ps[k][2])])

\* df.apply(calcular_criticidade, axis=1, pesos=ps)
Apply(frame, ps) == [i \in DOMAIN frame |-> calcular_criticidade(frame[i], ps)]

\* one iteration of the loop of lines 95-97, writing over the primary score
CenarioStepOverwrite(frame, cenario) ==
    SetColumn(frame, "Criticidade", Apply(frame, CenarioPesos(cenario)))

\* one iteration of the loop of lines 95-97 that keeps the scores of the
\* scenario computed before it when there is one
CenarioStepStale(frame, cenario) ==
    LET prev == {c \in CenarioNames \ {cenario} :
                    CenarioColumn(c) \in DOMAIN frame[1]}
    IN  IF prev = {}
        THEN SetColumn(frame, CenarioColumn(cenario),
                       [i \in DOMAIN frame |->
                           calcular_criticidade(frame[i], CenarioPesos(cenario))])
        ELSE SetColumn(frame, CenarioColumn(cenario),
                       Column(frame, CenarioColumn(CHOOSE c \in prev : TRUE)))

\* one iteration of the loop of lines 95-97
CenarioStep(frame, cenario) ==
    SetColumn(frame, CenarioColumn(cenario),
              Apply(frame, CenarioPesos(cenario)))

\* program constant: head(10)
TopK == 10

InitCrit ==
    /\ historico \in {ReadCsv(rows) : rows \in Datasets}
    /\ df = historico
    /\ cenarios \in {s \in [1..2 -> CenarioNames] : s[1] # s[2]}
    /\ ativos_criticos = <<>>
    /\ ativos_top = <<>>
    /\ pc = "normalize"
    /\ it = 1
    /\ weights = <<>>
    /\ CampoIdle
    /\ AmostraIdle
    /\ ColetaIdle
    /\ PainelIdle

\* lines 60-63
Normalize ==
    /\ pc = "normalize"
    /\ df' = NormalizeAll(df)
    /\ pc' = "criticidade"
    /\ UNCHANGED <<historico, cenarios, ativos_criticos, ativos_top, it, weights, campovars, amostravars, coletavars, painelvars>>

\* line 83
Criticidade ==
    /\ pc = "criticidade"
    /\ df' = SetColumn(df, "Criticidade", Apply(df, pesos))
    /\ pc' = "cenarios"
    /\ UNCHANGED <<historico, cenarios, ativos_criticos, ativos_top, it, weights, campovars, amostravars, coletavars, painelvars>>

\* lines 95-97, one iteration
Cenario ==
    /\ pc = "cenarios"
    /\ df' = CenarioStep(df, cenarios[it])
    /\ IF it < Len(cenarios)
       THEN it' = it + 1 /\ pc' = pc
       ELSE it' = 1 /\ pc' = "ranking"
    /\ UNCHANGED <<historico, cenarios, ativos_criticos, ativos_top, weights, campovars, amostravars, coletavars, painelvars>>

\* lines 100-104, one iteration
Ranking ==
    /\ pc = "ranking"
    /\ \E p \in SortOrders(df, CenarioColumn(cenarios[it])) :
          ativos_criticos' = Append(ativos_criticos, HeadRows(Reorder(df, p), TopK))
    /\ IF it < Len(cenarios)
       THEN it' = it + 1 /\ pc' = pc
       ELSE it' = 1 /\ pc' = "top"
    /\ UNCHANGED <<historico, df, cenarios, ativos_top, weights, campovars, amostravars, coletavars, painelvars>>

\* line 122
AtivosTop ==
    /\ pc = "top"
    /\ \E p \in SortOrders(df, "Criticidade") :
          ativos_top' = HeadRows(Reorder(df, p), TopK)
    /\ pc' = "done"
    /\ UNCHANGED <<historico, df, cenarios, ativos_criticos, it, weights, campovars, amostravars, coletavars, painelvars>>

NextCrit == Normalize \/ Criticidade \/ Cenario \/ Ranking \/ AtivosTop

vars == <<critvars, weights, campovars, amostravars, coletavars, painelvars>>

SpecCrit == InitCrit /\ [][NextCrit]_vars


(***************************************************************************)
(* ep1_sp3_apoio_relatorio.py: the dashboard of the workshop.  The module   *)
(* loads and normalises the dataset once; every move of a slider calls      *)
(* atualizar_grafico, which rescores the module-level frame.                *)
(***************************************************************************)
\* callbacks served in one run of the dashboard
MaxCalls == 3

\* positions (peso-frequencia, peso-dec) of the two sliders that are tried:
\* the initial one and one that scores by the DEC/FEC impact alone
PesoSamples == { <<Dec(4), Dec(3)>>, <<FZero, FOne>> }

\* normalizar_variavel(df, coluna)
normalizar_variavel(frame, coluna) == normalize(Column(frame, coluna))

\* the body of recalcular_criticidade up to the sort: the column Criticidade
\* of the module-level frame is assigned
Recalculada(frame, peso_frequencia, peso_dec) ==
    SetColumn(frame, "Criticidade",
              [i \in DOMAIN frame |->
                  FAdd(FMul(frame[i]["Frequencia_Falhas_Norm"], peso_frequencia),
                       FMul(frame[i]["Impacto_DEC_FEC_Norm"], peso_dec))])

InitWorkshop ==
    /\ historico \in {ReadCsv(rows) : rows \in Datasets}
    /\ df = historico
    /\ pc = "carregar_dados"
    /\ it = 1
    /\ weights = <<>>
    /\ cenarios = <<>>
    /\ ativos_criticos = <<>>
    /\ ativos_top = <<>>
    /\ CampoIdle
    /\ AmostraIdle
    /\ ColetaIdle
    /\ PainelIdle

\* lines 80-82
Preparar ==
    /\ pc = "carregar_dados"
    /\ df' = SetColumn(
                 SetColumn(df, "Frequencia_Falhas_Norm",
                           normalizar_variavel(df, "Frequencia_Falhas")),
                 "Impacto_DEC_FEC_Norm",
                 normalizar_variavel(df, "Impacto_DEC_FEC"))
    /\ pc' = "run_server"
    /\ UNCHANGED <<historico, cenarios, ativos_criticos, ativos_top, it, weights, campovars, amostravars, coletavars, painelvars>>

\* atualizar_grafico(peso_frequencia, peso_dec): ativos_criticos is the
\* frame the figure of this call is drawn from, weights the arguments of the
\* call
AtualizarGrafico ==
    /\ pc = "run_server"
    /\ it <= MaxCalls
    /\ \E pesos_call \in PesoSamples :
          /\ df' = Recalculada(df, pesos_call[1], pesos_call[2])
          /\ weights' = pesos_call
          /\ \E p \in SortOrders(df', "Criticidade") :
                ativos_criticos' = HeadRows(Reorder(df', p), TopK)
    /\ it' = it + 1
    /\ UNCHANGED <<historico, cenarios, ativos_top, pc, campovars, amostravars, coletavars, painelvars>>

NextWorkshop == Preparar \/ AtualizarGrafico

SpecWorkshop == InitWorkshop /\ [][NextWorkshop]_vars

\* The server of app.run_server answers each request in a thread of its own:
\* the requests that two moves of a slider send are served at the same time.
\* A callback assigns the column Criticidade of the module-level frame (line
\* 96) and then sorts that frame (line 100); between the two statements the
\* other thread may run.
NumCallbacks == 2

CallbackIdle == [pc |-> "idle", pesos |-> <<>>, ativos_criticos |-> <<>>]

InitPainel ==
    /\ historico \in {ReadCsv(rows) : rows \in Datasets}
    /\ df = historico
    /\ pc = "carregar_dados"
    /\ it = 1
    /\ weights = <<>>
    /\ cenarios = <<>>
    /\ ativos_criticos = <<>>
    /\ ativos_top = <<>>
    /\ CampoIdle
    /\ AmostraIdle
    /\ ColetaIdle
    /\ callbacks = [c \in 1..NumCallbacks |-> CallbackIdle]

\* line 96 in the thread of callback c
AtribuirCriticidade(c) ==
    /\ pc = "run_server"
    /\ callbacks[c].pc = "idle"
    /\ \E pesos_call \in PesoSamples :
          /\ df' = Recalculada(df, pesos_call[1], pesos_call[2])
          /\ callbacks' = [callbacks EXCEPT ![c].pc = "sort_values",
                                            ![c].pesos = pesos_call]
    /\ UNCHANGED <<historico, cenarios, ativos_criticos, ativos_top, pc, it, weights, campovars, amostravars, coletavars>>

\* line 100 in the thread of callback c: the frame is sorted as it is now
OrdenarCriticidade(c) ==
    /\ pc = "run_server"
    /\ callbacks[c].pc = "sort_values"
    /\ \E p \in SortOrders(df, "Criticidade") :
          callbacks' = [callbacks EXCEPT
                           ![c].pc = "returned",
                           ![c].ativos_criticos = HeadRows(Reorder(df, p), TopK)]
    /\ UNCHANGED <<historico, df, cenarios, ativos_criticos, ativos_top, pc, it, weights, campovars, amostravars, coletavars>>

NextPainel ==
    \/ Preparar
    \/ \E c \in 1..NumCallbacks : AtribuirCriticidade(c)
    \/ \E c \in 1..NumCallbacks : OrdenarCriticidade(c)

SpecPainel == InitPainel /\ [][NextPainel]_vars

(***************************************************************************)
(* ep3_sp1_norm_pond_dados.py and ep3_sp2_matriz_priorizacao.py: the        *)
(* attributes are normalised in place and the criticality matrix is         *)
(* computed from them with a weight dict.                                   *)
(***************************************************************************)
columns_to_normalize ==
    <<"Frequencia_Falhas", "Tempo_Operacao", "Numero_Clientes_Afetados",
      "Impacto_DEC_FEC">>

Columns(frame) == IF frame = <<>> THEN {} ELSE DOMAIN frame[1]

\* the columns a historico_light.csv may lack: none, Tempo_Operacao
MissingColumnSets == { {}, {"Tempo_Operacao"} }

\* the file without the columns of the set D
DropColumns(frame, D) ==
    [i \in DOMAIN frame |-> [c \in DOMAIN frame[i] \ D |-> frame[i][c]]]

\* a normalize_columns that returns at the first listed column that does not
\* exist
RECURSIVE normalize_columns_until(_, _)
normalize_columns_until(frame, k) ==
    IF k > Len(columns_to_normalize) THEN frame
    ELSE LET column == columns_to_normalize[k]
             lo == SeriesMin(Column(frame, column))
             hi == SeriesMax(Column(frame, column))
         IN  IF column \in Columns(frame)
             THEN normalize_columns_until(
                      SetColumn(frame, column,
                                [i \in DOMAIN frame |->
                                    FDiv(FSub(frame[i][column], lo),
                                         FSub(hi, lo))]),
                      k + 1)
             ELSE frame

\* ep3_sp1 normalize_columns: each listed column that exists is replaced by
\* its min-max scaling, a listed column that does not exist is skipped
RECURSIVE normalize_columns_from(_, _)
normalize_columns_from(frame, k) ==
    IF k > Len(columns_to_normalize) THEN frame
    ELSE LET column == columns_to_normalize[k]
             lo == SeriesMin(Column(frame, column))
             hi == SeriesMax(Column(frame, column))
         IN  IF column \in Columns(frame)
             THEN normalize_columns_from(
                      SetColumn(frame, column,
                                [i \in DOMAIN frame |->
                                    FDiv(FSub(frame[i][column], lo),
                                         FSub(hi, lo))]),
                      k + 1)
             ELSE normalize_columns_from(frame, k + 1)

normalize_columns(frame) == normalize_columns_from(frame, 1)

\* line 102 of ep3_sp2
WeightsMatriz ==
    << <<"Frequencia_Falhas", Dec(4)>>,
       <<"Tempo_Operacao", Dec(3)>>,
       <<"Numero_Clientes_Afetados", Dec(2)>>,
       <<"Impacto_DEC_FEC", Dec(1)>> >>

\* the weight dicts calculate_criticality is called with: the one of the
\* script, one whose weights sum to 2, one over two attributes whose
\* weights sum to 0.7 and one that names an attribute the dataset does not have
WeightConfigs ==
    { WeightsMatriz,
      << <<"Frequencia_Falhas", Dec(5)>>,
         <<"Tempo_Operacao", Dec(5)>>,
         <<"Numero_Clientes_Afetados", Dec(5)>>,
         <<"Impacto_DEC_FEC", Dec(5)>> >>,
      << <<"Frequencia_Falhas", Dec(4)>>,
         <<"Impacto_DEC_FEC", Dec(3)>> >>,
      << <<"Frequencia_Falhas", Dec(6)>>,
         <<"Custo_Reparo", Dec(4)>> >> }

WeightVars(ws) == {ws[k][1] : k \in DOMAIN ws}

\* the weighted sum divided by the sum of the weights
calculate_criticality_media(frame, ws) ==
    SetColumn(frame, "Criticidade",
              [i \in DOMAIN frame |->
                  FDiv(SumSeq([k \in DOMAIN ws |->
                                  FMul(frame[i][ws[k][1]], ws[k][2])]),
                       SumSeq([k \in DOMAIN ws |-> ws[k][2]]))])

\* ep3_sp2 calculate_criticality: sum(df[var] * weight ...), cell by cell
calculate_criticality(frame, ws) ==
    SetColumn(frame, "Criticidade",
              [i \in DOMAIN frame |->
                  SumSeq([k \in DOMAIN ws |->
                             FMul(frame[i][ws[k][1]], ws[k][2])])])

InitMatriz ==
    /\ historico \in {DropColumns(ReadCsv(rows), D) :
                         rows \in Datasets, D \in MissingColumnSets}
    /\ df = historico
    /\ weights \in WeightConfigs
    /\ pc = "normalize_columns"
    /\ cenarios = <<>>
    /\ ativos_criticos = <<>>
    /\ ativos_top = <<>>
    /\ it = 1
    /\ CampoIdle
    /\ AmostraIdle
    /\ ColetaIdle
    /\ PainelIdle

\* ep3_sp1 main: normalize_columns on the loaded data
NormalizeColumns ==
    /\ pc = "normalize_columns"
    /\ df' = normalize_columns(df)
    /\ pc' = "calculate_criticality"
    /\ UNCHANGED <<historico, cenarios, ativos_criticos, ativos_top, it, weights, campovars, amostravars, coletavars, painelvars>>

\* ep3_sp2 lines 110-118 with a calculate_criticality that leaves the vars
\* that are no column out of the sum
CalculateCriticalityKnown ==
    /\ pc = "calculate_criticality"
    /\ df' = calculate_criticality(df,
                 SelectSeq(weights, LAMBDA w : w[1] \in Columns(df)))
    /\ pc' = "saved"
    /\ UNCHANGED <<historico, cenarios, ativos_criticos, ativos_top, it, weights, campovars, amostravars, coletavars, painelvars>>

\* ep3_sp2 lines 110-118 and 155-156: the matrix is computed and saved; df[var]
\* of a var that is no column raises KeyError, which the except clause reports
CalculateCriticality ==
    /\ pc = "calculate_criticality"
    /\ IF WeightVars(weights) \subseteq Columns(df)
       THEN df' = calculate_criticality(df, weights) /\ pc' = "saved"
       ELSE df' = df /\ pc' = "erro"
    /\ UNCHANGED <<historico, cenarios, ativos_criticos, ativos_top, it, weights, campovars, amostravars, coletavars, painelvars>>

NextMatriz == NormalizeColumns \/ CalculateCriticality

SpecMatriz == InitMatriz /\ [][NextMatriz]_vars

(***************************************************************************)
(* ep5_sp1_integra_dados_campo.py, ep5_sp2_inferencia_unidades.py and       *)
(* ep5_sp3_valida_refina_matriz.py: the matrix is consolidated with the     *)
(* field measurements, then measurements are inferred (ep5_sp2) or weight   *)
(* scenarios are tested (ep5_sp3).  consolidate_data of ep5_sp1 is the one  *)
(* of ep5_sp2.  An asset id A00i is written i; the free-text column         *)
(* Observacoes, which no computation reads, is left out.                    *)
(***************************************************************************)
\* asset ids A001 .. A00<MaxId> occur in the input files
MaxId == 2

Ids == 1..MaxId

RECURSIVE SortedSeq(_)
SortedSeq(S) ==
    IF S = {} THEN <<>>
    ELSE LET m == CHOOSE x \in S : \A y \in S : x <= y
         IN  <<m>> \o SortedSeq(S \ {m})

RECURSIVE Flatten(_)
Flatten(ss) == IF ss = <<>> THEN <<>> ELSE ss[1] \o Flatten(Tail(ss))

IdsOf(frame) == {frame[i]["ID_Ativo"] : i \in DOMAIN frame}

RowsWithId(frame, id) == SelectSeq(frame, LAMBDA r : r["ID_Ativo"] = id)

NaNRow(cols) == [c \in cols |-> NaN]

\* the frame with a row of data for each id of the non-empty set S
TableOf(S, data) ==
    LET ids == SortedSeq(S)
    IN  [k \in DOMAIN ids |-> ("ID_Ativo" :> ids[k]) @@ data[ids[k]]]

MatrizRow(ff, dec, pt) ==
    [Frequencia_Falhas |-> ff, Impacto_DEC_FEC |-> dec, Ponderacao_Total |-> pt]

\* rows of a matrix file without a score column: an asset with all attributes
\* 0 and one that scores 0.5 under the weights of main
MatrizSamples ==
    { MatrizRow(FZero, FZero, FZero), MatrizRow(Dec(5), Dec(3), Dec(9)) }

\* rows of a matrix file that already has the column Criticidade_Matriz
ScoredSamples ==
    { [Frequencia_Falhas |-> Dec(5), Impacto_DEC_FEC |-> Dec(3),
       Ponderacao_Total |-> Dec(9), Criticidade_Matriz |-> Dec(8)] }

\* rows of a matrix file that has neither the column Criticidade_Matriz nor
\* the column Ponderacao_Total
PartialSamples ==
    { [Frequencia_Falhas |-> Dec(5), Impacto_DEC_FEC |-> Dec(3)] }

\* cells of the column Medicoes of a field file: empty, 0.45, 0.6
MedicoesSamples == { NaN, Cent(45), Dec(6) }

\* rows of a feedback file: an override of one attribute, of all three
FeedbackSamples ==
    { MatrizRow(Cent(45), NaN, NaN), MatrizRow(Cent(45), Cent(75), Dec(7)) }

NonEmptySubsets(S) == SUBSET S \ {{}}

\* a matrix file and a field file that list asset A001 on two rows
DuplicateMatriz ==
    File(<< ("ID_Ativo" :> 1) @@ MatrizRow(Dec(5), Dec(3), Dec(9)),
            ("ID_Ativo" :> 1) @@ MatrizRow(FZero, FZero, FZero) >>)

DuplicateField ==
    File(<< [ID_Ativo |-> 1, Medicoes |-> Cent(45)],
            [ID_Ativo |-> 1, Medicoes |-> Dec(6)] >>)

MatrizFiles ==
    {DuplicateMatriz} \cup
    UNION {{File(TableOf(S, data)) : data \in [S -> MatrizSamples]} \cup
           {File(TableOf(S, data)) : data \in [S -> ScoredSamples]} \cup
           {File(TableOf(S, data)) : data \in [S -> PartialSamples]} :
           S \in NonEmptySubsets(Ids)}

FieldFiles ==
    {DuplicateField} \cup
    UNION {{File(TableOf(S, [id \in S |-> [Medicoes |-> med[id]]])) :
               med \in [S -> MedicoesSamples]} :
           S \in NonEmptySubsets(Ids)}

FeedbackFiles ==
    {File(TableOf({id}, [j \in {id} |-> row])) :
        id \in Ids, row \in FeedbackSamples}

\* create_field_data_template / create_template(.., 'campo')
FieldTemplate ==
    << [ID_Ativo |-> 1, Medicoes |-> Dec(8)],
       [ID_Ativo |-> 2, Medicoes |-> Dec(7)],
       [ID_Ativo |-> 3, Medicoes |-> Dec(6)] >>

\* create_matriz_priorizacao_template
MatrizTemplate ==
    << [ID_Ativo |-> 1, Frequencia_Falhas |-> Dec(5), Impacto_DEC_FEC |-> Dec(8),
        Numero_Clientes_Afetados |-> Num(100, 1), Ponderacao_Total |-> Cent(75)],
       [ID_Ativo |-> 2, Frequencia_Falhas |-> Dec(3), Impacto_DEC_FEC |-> Dec(7),
        Numero_Clientes_Afetados |-> Num(50, 1), Ponderacao_Total |-> Cent(65)],
       [ID_Ativo |-> 3, Frequencia_Falhas |-> Dec(2), Impacto_DEC_FEC |-> Dec(6),
        Numero_Clientes_Afetados |-> Num(30, 1), Ponderacao_Total |-> Cent(55)] >>

\* create_template(.., 'feedback'), which ep5_sp3 writes as the matrix file
FeedbackTemplate ==
    << [ID_Ativo |-> 1, Frequencia_Falhas |-> Cent(45),
        Impacto_DEC_FEC |-> Cent(75), Ponderacao_Total |-> Dec(7)],
       [ID_Ativo |-> 2, Frequencia_Falhas |-> Cent(35),
        Impacto_DEC_FEC |-> Cent(65), Ponderacao_Total |-> Dec(6)] >>

\* weights of main
WeightsCampo ==
    [Frequencia_Falhas |-> Dec(4), Impacto_DEC_FEC |-> Dec(4),
     Ponderacao_Total |-> Dec(2)]

\* scenarios of main of ep5_sp3
Scenarios ==
    << [Frequencia_Falhas |-> Dec(3), Impacto_DEC_FEC |-> Dec(5),
        Ponderacao_Total |-> Dec(2)],
       [Frequencia_Falhas |-> Dec(5), Impacto_DEC_FEC |-> Dec(3),
        Ponderacao_Total |-> Dec(2)],
       [Frequencia_Falhas |-> Dec(4), Impacto_DEC_FEC |-> Dec(4),
        Ponderacao_Total |-> Dec(2)] >>

calculate_criticidade_matriz(matriz_data, ws) ==
    SetColumn(matriz_data, "Criticidade_Matriz",
        [i \in DOMAIN matriz_data |->
            FAdd(FAdd(FMul(ws["Frequencia_Falhas"],
                           matriz_data[i]["Frequencia_Falhas"]),
                      FMul(ws["Impacto_DEC_FEC"],
                           matriz_data[i]["Impacto_DEC_FEC"])),
                 FMul(ws["Ponderacao_Total"],
                      matriz_data[i]["Ponderacao_Total"]))])

\* a loop body that also copies the empty cells of the feedback row
ApplyFeedbackRowAll(matriz_data, row) ==
    IF row["ID_Ativo"] \in IdsOf(matriz_data)
    THEN [i \in DOMAIN matriz_data |->
            IF matriz_data[i]["ID_Ativo"] = row["ID_Ativo"]
            THEN [c \in DOMAIN matriz_data[i] |->
                    IF c \in DOMAIN row /\ c # "ID_Ativo"
                    THEN row[c] ELSE matriz_data[i][c]]
            ELSE matriz_data[i]]
    ELSE matriz_data

\* the body of the loop of apply_feedback for one feedback row
ApplyFeedbackRow(matriz_data, row) ==
    IF row["ID_Ativo"] \in IdsOf(matriz_data)
    THEN [i \in DOMAIN matriz_data |->
            IF matriz_data[i]["ID_Ativo"] = row["ID_Ativo"]
            THEN [c \in DOMAIN matriz_data[i] |->
                    IF c \in DOMAIN row /\ c # "ID_Ativo" /\ ~IsNaN(row[c])
                    THEN row[c] ELSE matriz_data[i][c]]
            ELSE matriz_data[i]]
    ELSE matriz_data

RECURSIVE ApplyFeedbackRows(_, _)
ApplyFeedbackRows(matriz_data, feedback) ==
    IF feedback = <<>> THEN matriz_data
    ELSE ApplyFeedbackRows(ApplyFeedbackRow(matriz_data, feedback[1]),
                           Tail(feedback))

apply_feedback(matriz_data, file) ==
    IF ~file.exists THEN matriz_data
    ELSE ApplyFeedbackRows(matriz_data, file.rows)

\* pd.merge(left, right, on="ID_Ativo", how="outer"): the keys of both frames
\* in sorted order; a key of one frame only gets NaN in the other's columns
MergeOuter(left, right) ==
    LET keys == SortedSeq(IdsOf(left) \cup IdsOf(right))
        lc == Columns(left) \ {"ID_Ativo"}
        rc == Columns(right) \ {"ID_Ativo"}
        RowsFor(k) ==
            LET L == RowsWithId(left, k)
                R == RowsWithId(right, k)
            IN  IF L = <<>> THEN [j \in DOMAIN R |-> R[j] @@ NaNRow(lc)]
                ELSE IF R = <<>> THEN [j \in DOMAIN L |-> L[j] @@ NaNRow(rc)]
                ELSE [t \in 1..(Len(L) * Len(R)) |->
                        L[((t - 1) \div Len(R)) + 1]
                            @@ R[((t - 1) % Len(R)) + 1]]
    IN  Flatten([k \in DOMAIN keys |-> RowsFor(keys[k])])

\* lambda x: "Reavaliar" if x >= 0.1 else "Manter"
AjusteInclusive(x) == IF FGe(x, Dec(1)) THEN "Reavaliar" ELSE "Manter"

\* lambda x: "Reavaliar" if x > 0.1 else "Manter"
Ajuste(x) == IF FGt(x, Dec(1)) THEN "Reavaliar" ELSE "Manter"

\* the columns Discrepancia and Ajustes_Propostos of consolidate_data
WithDiscrepancia(frame) ==
    [i \in DOMAIN frame |->
        LET disc == FDiv(FAbs(FSub(frame[i]["Criticidade_Matriz"],
                                   frame[i]["Medicoes"])),
                         frame[i]["Criticidade_Matriz"])
        IN  [c \in DOMAIN frame[i] \cup {"Discrepancia", "Ajustes_Propostos"} |->
                IF c = "Discrepancia" THEN disc
                ELSE IF c = "Ajustes_Propostos" THEN Ajuste(disc)
                ELSE frame[i][c]]]

\* the matrix file consolidate_data reads: a missing file is first written
\* from the template of the script
MatrizRead(scr, file) ==
    IF file.exists THEN file
    ELSE IF scr = "ep5_sp3" THEN File(FeedbackTemplate)
    ELSE File(MatrizTemplate)

FieldRead(file) == IF file.exists THEN file ELSE File(FieldTemplate)

WithScore(matriz_data) ==
    IF "Criticidade_Matriz" \in Columns(matriz_data) THEN matriz_data
    ELSE calculate_criticidade_matriz(matriz_data, WeightsCampo)

\* consolidate_data, from the frames read to the frame saved
consolidate_data(scr, field, matriz, feedback) ==
    LET scored == WithScore(matriz.rows)
        adjusted == IF scr = "ep5_sp3" THEN apply_feedback(scored, feedback)
                    ELSE scored
    IN  WithDiscrepancia(MergeOuter(adjusted, field.rows))

InitCampo ==
    /\ script \in {"ep5_sp2", "ep5_sp3"}
    /\ field_file \in FieldFiles \cup {NoFile}
    /\ matriz_file \in MatrizFiles \cup {NoFile}
    /\ feedback_file \in
          (IF script = "ep5_sp3" THEN FeedbackFiles \cup {NoFile} ELSE {NoFile})
    /\ consolidated = <<>>
    /\ resultado = <<>>
    /\ AmostraIdle
    /\ ColetaIdle
    /\ PainelIdle
    /\ pc = "consolidate_data"
    /\ it = 1
    /\ historico = <<>>
    /\ df = <<>>
    /\ cenarios = (IF script = "ep5_sp3" THEN Scenarios ELSE <<>>)
    /\ ativos_criticos = <<>>
    /\ ativos_top = <<>>
    /\ weights = <<>>

\* the columns calculate_criticidade_matriz reads
ScoreColumns == {"Frequencia_Falhas", "Impacto_DEC_FEC", "Ponderacao_Total"}

\* matriz_data[col] raises KeyError in calculate_criticidade_matriz
ScoreKeyError(matriz_data) ==
    /\ "Criticidade_Matriz" \notin Columns(matriz_data)
    /\ ~(ScoreColumns \subseteq Columns(matriz_data))

\* consolidate_data called by main; a KeyError ends the script with a
\* traceback, after the missing files were written from the templates
Consolidate ==
    /\ pc = "consolidate_data"
    /\ field_file' = FieldRead(field_file)
    /\ matriz_file' = MatrizRead(script, matriz_file)
    /\ IF ScoreKeyError(matriz_file'.rows)
       THEN /\ consolidated' = consolidated
            /\ pc' = "KeyError"
       ELSE /\ consolidated' =
                  consolidate_data(script, field_file', matriz_file', feedback_file)
            /\ pc' = IF script = "ep5_sp3" THEN "test_scenarios"
                     ELSE "perform_inference"
    /\ UNCHANGED <<script, feedback_file, resultado, it>>
    /\ UNCHANGED <<historico, df, cenarios, ativos_criticos, ativos_top, weights, amostravars, coletavars, painelvars>>

\* weights[col] or matriz_data[col] raises KeyError in
\* calculate_criticidade_matriz
ScenarioKeyError(matriz_data, ws) ==
    \/ ~(ScoreColumns \subseteq DOMAIN ws)
    \/ ~(ScoreColumns \subseteq Columns(matriz_data))

\* one iteration of the loop of test_scenarios that, when the scoring
\* raises, drops the rankings written so far
TestScenarioDropping ==
    /\ pc = "test_scenarios"
    /\ IF ScenarioKeyError(consolidated, cenarios[it])
       THEN /\ resultado' = <<>>
            /\ it' = it
            /\ pc' = "test_scenarios_KeyError"
       ELSE /\ LET scenario_data ==
                      calculate_criticidade_matriz(consolidated, cenarios[it])
               IN  \E p \in SortOrders(scenario_data, "Criticidade_Matriz") :
                      resultado' = Append(resultado, Reorder(scenario_data, p))
            /\ IF it < Len(cenarios)
               THEN it' = it + 1 /\ pc' = pc
               ELSE it' = 1 /\ pc' = "done"
    /\ UNCHANGED <<script, field_file, matriz_file, feedback_file, consolidated>>
    /\ UNCHANGED <<historico, df, cenarios, ativos_criticos, ativos_top, weights, amostravars, coletavars, painelvars>>

\* one iteration of the loop of test_scenarios: the scenario is scored on a
\* copy of the consolidated table and its ranking is written; a KeyError of
\* the scoring leaves the function and ends the script
TestScenario ==
    /\ pc = "test_scenarios"
    /\ IF ScenarioKeyError(consolidated, cenarios[it])
       THEN /\ resultado' = resultado
            /\ it' = it
            /\ pc' = "test_scenarios_KeyError"
       ELSE /\ LET scenario_data ==
                      calculate_criticidade_matriz(consolidated, cenarios[it])
               IN  \E p \in SortOrders(scenario_data, "Criticidade_Matriz") :
                      resultado' = Append(resultado, Reorder(scenario_data, p))
            /\ IF it < Len(cenarios)
               THEN it' = it + 1 /\ pc' = pc
               ELSE it' = 1 /\ pc' = "done"
    /\ UNCHANGED <<script, field_file, matriz_file, feedback_file, consolidated>>
    /\ UNCHANGED <<historico, df, cenarios, ativos_criticos, ativos_top, weights, amostravars, coletavars, painelvars>>

\* dropna(subset=[col]) and frame[frame[col].isna()]
DropNa(frame, col) == SelectSeq(frame, LAMBDA r : ~IsNaN(r[col]))
OnlyNa(frame, col) == SelectSeq(frame, LAMBDA r : IsNaN(r[col]))

\* program constant: test_size=0.2 is one fifth
TestFifth == 5

\* train_test_split: ceil(0.2 * n) samples are held out
NTest(n) == (n + TestFifth - 1) \div TestFifth
NTrain(n) == n - NTest(n)

Mean(xs) == FDiv(SumSeq(xs), Num(Len(xs), 1))

\* LinearRegression().fit on the training rows: least squares of Medicoes on
\* Criticidade_Matriz; with no variance in x the slope is 0
Fit(rows) ==
    LET xs == [k \in DOMAIN rows |-> rows[k]["Criticidade_Matriz"]]
        ys == [k \in DOMAIN rows |-> rows[k]["Medicoes"]]
        mx == Mean(xs)
        my == Mean(ys)
        sxx == SumSeq([k \in DOMAIN rows |->
                          FMul(FSub(xs[k], mx), FSub(xs[k], mx))])
        sxy == SumSeq([k \in DOMAIN rows |->
                          FMul(FSub(xs[k], mx), FSub(ys[k], my))])
        coef == IF sxx = FZero THEN FZero ELSE FDiv(sxy, sxx)
    IN  [coef |-> coef, intercept |-> FSub(my, FMul(coef, mx))]

Predict(model, x) == FAdd(model.intercept, FMul(model.coef, x))

\* sort_values(by="ID_Ativo"): ascending, rows of one id in any order
SortByIdOrders(frame) ==
    {p \in Permutations(DOMAIN frame) :
        \A i, j \in DOMAIN frame :
            i < j => frame[p[i]]["ID_Ativo"] <= frame[p[j]]["ID_Ativo"]}

SetMedicoes(frame, values) == SetColumn(frame, "Medicoes", values)

\* perform_inference of ep5_sp2.  The rows train_test_split holds out depend
\* on the generator seeded with 42: any choice of NTest rows is allowed.
PerformInference ==
    /\ pc = "perform_inference"
    /\ LET inspected == DropNa(DropNa(consolidated, "Medicoes"),
                               "Criticidade_Matriz")
           not_inspected == OnlyNa(consolidated, "Medicoes")
           n == Len(inspected)
       IN  IF inspected = <<>>
           THEN \* lines 144-152
                /\ resultado' =
                      <<SetMedicoes(not_inspected,
                                    [k \in DOMAIN not_inspected |-> FZero])>>
                /\ pc' = "done"
           ELSE IF NTrain(n) = 0
           THEN \* train_test_split raises ValueError: empty train set
                /\ resultado' = resultado
                /\ pc' = "erro"
           ELSE \E train \in {T \in SUBSET DOMAIN inspected :
                                  Cardinality(T) = NTrain(n)} :
                  LET rows == [k \in 1..NTrain(n) |->
                                  inspected[SortedSeq(train)[k]]]
                      model == Fit(rows)
                  IN  IF \E k \in DOMAIN not_inspected :
                            IsNaN(not_inspected[k]["Criticidade_Matriz"])
                      THEN \* model.predict raises ValueError: X contains NaN
                           /\ resultado' = resultado
                           /\ pc' = "erro"
                      ELSE LET filled ==
                                   SetMedicoes(not_inspected,
                                       [k \in DOMAIN not_inspected |->
                                           Predict(model,
                                               not_inspected[k]["Criticidade_Matriz"])])
                               all == inspected \o filled
                           IN  /\ \E p \in SortByIdOrders(all) :
                                     resultado' = <<Reorder(all, p)>>
                               /\ pc' = "done"
    /\ UNCHANGED <<script, field_file, matriz_file, feedback_file, consolidated, it>>
    /\ UNCHANGED <<historico, df, cenarios, ativos_criticos, ativos_top, weights, amostravars, coletavars, painelvars>>

NextCampo == Consolidate \/ TestScenario \/ PerformInference

SpecCampo == InitCampo /\ [][NextCampo]_vars

\* rows of a matrix file that has the column Criticidade_Matriz and lacks the
\* column Ponderacao_Total
ScoredPartialSamples ==
    { [Frequencia_Falhas |-> Dec(5), Impacto_DEC_FEC |-> Dec(3),
       Criticidade_Matriz |-> Dec(8)] }

ScoredPartialFiles ==
    UNION {{File(TableOf(S, data)) : data \in [S -> ScoredPartialSamples]} :
           S \in NonEmptySubsets(Ids)}

\* weights_list of test_scenarios: the list of main, one whose second dict
\* omits Ponderacao_Total, one whose third dict misnames it
ScenarioLists ==
    { Scenarios,
      << Scenarios[1],
         [Frequencia_Falhas |-> Dec(5), Impacto_DEC_FEC |-> Dec(5)],
         Scenarios[3] >>,
      << Scenarios[1],
         Scenarios[2],
         [Frequencia_Falhas |-> Dec(4), Impacto_DEC_FEC |-> Dec(4),
          Ponderacao |-> Dec(2)] >> }

\* ep5_sp3 on the matrix files above as well, test_scenarios with the lists
\* above
InitCenarios ==
    /\ script = "ep5_sp3"
    /\ field_file \in FieldFiles \cup {NoFile}
    /\ matriz_file \in MatrizFiles \cup ScoredPartialFiles \cup {NoFile}
    /\ feedback_file \in FeedbackFiles \cup {NoFile}
    /\ cenarios \in ScenarioLists
    /\ consolidated = <<>>
    /\ resultado = <<>>
    /\ AmostraIdle
    /\ ColetaIdle
    /\ PainelIdle
    /\ pc = "consolidate_data"
    /\ it = 1
    /\ historico = <<>>
    /\ df = <<>>
    /\ ativos_criticos = <<>>
    /\ ativos_top = <<>>
    /\ weights = <<>>

NextCenarios == Consolidate \/ TestScenario

SpecCenarios == InitCenarios /\ [][NextCenarios]_vars

(***************************************************************************)
(* ep4_sp1_planejamento_amostragem.py: the criticality matrix is loaded and *)
(* updated with the feedback of the field team.                             *)
(***************************************************************************)
\* cells of the column Criticidade of matriz_priorizacao.csv
CriticidadeSamples == { Dec(4), Dec(7) }

\* cells of the column Ajuste_Criticidade of feedback_campo.csv
AjusteSamples == { NaN, Cent(85) }

AmostraMatrizFiles ==
    UNION {{File(TableOf(S, [id \in S |-> [Criticidade |-> c[id]]])) :
               c \in [S -> CriticidadeSamples]} :
           S \in NonEmptySubsets(Ids)}

\* feedback files with the column Ajuste_Criticidade, and files without it
AmostraFeedbackFiles ==
    UNION {{File(TableOf(S, [id \in S |-> [Ajuste_Criticidade |-> a[id]]])) :
               a \in [S -> AjusteSamples]} \cup
           {File([k \in 1..Cardinality(S) |-> [ID_Ativo |-> SortedSeq(S)[k]]])} :
           S \in NonEmptySubsets(Ids)}

\* the largest population of a matrix file that is stratified
MaxAtivos == 4

\* cells of the column Criticidade of the matrix files of more than MaxId assets
PopulationSamples == { Dec(2), Dec(4), Dec(7), Dec(9) }

\* matrix files of the assets A001 .. A00n, MaxId < n <= MaxAtivos
PopulationFiles ==
    UNION {{File(TableOf(1..n, [id \in 1..n |-> [Criticidade |-> c[id]]])) :
               c \in [1..n -> PopulationSamples]} :
           n \in (MaxId + 1)..MaxAtivos}

\* the scores of a matrix of eight assets in which scores repeat
TiedScores ==
    << Dec(2), Dec(4), Dec(2), Dec(9), Dec(4), Dec(2), Dec(7), Dec(4) >>

TiedPopulation ==
    File(TableOf(DOMAIN TiedScores,
                 [id \in DOMAIN TiedScores |-> [Criticidade |-> TiedScores[id]]]))

\* the pairs (matrix file, feedback file) a run starts from: the files of at
\* most MaxId assets with every feedback file, the larger ones with no
\* feedback file or with one that lists asset A001 and has no adjustment
AmostraInputs ==
    ((AmostraMatrizFiles \cup {NoFile})
        \X (AmostraFeedbackFiles \cup {NoFile}))
    \cup ((PopulationFiles \cup {TiedPopulation}) \X {NoFile, File(<<[ID_Ativo |-> 1]>>)})

\* create_feedback_template
AjusteTemplate ==
    << [ID_Ativo |-> 1, Ajuste_Criticidade |-> Cent(75)],
       [ID_Ativo |-> 2, Ajuste_Criticidade |-> Dec(6)],
       [ID_Ativo |-> 3, Ajuste_Criticidade |-> Cent(85)] >>

\* df.merge(feedback, on="ID_Ativo", how="outer")
MergeLeftOuter(left, right) == MergeOuter(left, right)

\* df.merge(feedback, on="ID_Ativo", how="left"): the rows of left in their
\* order, each joined with the rows of right of the same id, NaN when none
MergeLeft(left, right) ==
    LET rc == Columns(right) \ {"ID_Ativo"}
        RowsFor(l) ==
            LET R == RowsWithId(right, l["ID_Ativo"])
            IN  IF R = <<>> THEN <<l @@ NaNRow(rc)>>
                ELSE [j \in DOMAIN R |-> l @@ R[j]]
    IN  Flatten([i \in DOMAIN left |-> RowsFor(left[i])])

\* a.combine_first(b), cell by cell
CombineFirst(a, b) == IF IsNaN(a) THEN b ELSE a

update_sampling_based_on_feedback(frame, file) ==
    IF ~file.exists THEN frame
    ELSE LET merged == MergeLeft(frame, file.rows)
         IN  IF "Ajuste_Criticidade" \in Columns(file.rows)
             THEN SetColumn(merged, "Criticidade",
                            [i \in DOMAIN merged |->
                                CombineFirst(merged[i]["Ajuste_Criticidade"],
                                             merged[i]["Criticidade"])])
             ELSE merged

InitAmostra ==
    /\ script = "ep4_sp1"
    /\ \E files \in AmostraInputs :
          /\ matriz_file = files[1]
          /\ feedback_file = files[2]
    /\ field_file = NoFile
    /\ consolidated = <<>>
    /\ resultado = <<>>
    /\ AmostraIdle
    /\ ColetaIdle
    /\ PainelIdle
    /\ pc = "load_criticality_matrix"
    /\ it = 1
    /\ historico = <<>>
    /\ df = <<>>
    /\ cenarios = <<>>
    /\ ativos_criticos = <<>>
    /\ ativos_top = <<>>
    /\ weights = <<>>

\* main, lines 142-149: a missing feedback file is written from the template;
\* load_criticality_matrix raises FileNotFoundError on a missing matrix
LoadMatrix ==
    /\ pc = "load_criticality_matrix"
    /\ feedback_file' =
          IF feedback_file.exists THEN feedback_file ELSE File(AjusteTemplate)
    /\ IF matriz_file.exists
       THEN df' = matriz_file.rows /\ pc' = "update_sampling"
       ELSE df' = df /\ pc' = "erro"
    /\ UNCHANGED <<script, field_file, matriz_file, consolidated, resultado, it>>
    /\ UNCHANGED <<historico, cenarios, ativos_criticos, ativos_top, weights, amostravars, coletavars, painelvars>>

\* main, line 153
UpdateSampling ==
    /\ pc = "update_sampling"
    /\ df' = update_sampling_based_on_feedback(df, feedback_file)
    /\ pc' = "updated"
    /\ UNCHANGED <<campovars, amostravars, coletavars, painelvars>>
    /\ UNCHANGED <<historico, cenarios, ativos_criticos, ativos_top, it, weights>>

\* program constants of main: q=3 with its labels, sample_size = 50
NumEstratos == 3
Labels == <<"Baixa", "Média", "Alta">>
SampleSize == 50

\* the values of a column in ascending order, NaN left out
RECURSIVE SortedValues(_)
SortedValues(values) ==
    LET known == SelectSeq(values, LAMBDA x : ~IsNaN(x))
    IN  IF known = <<>> THEN <<>>
        ELSE LET k == CHOOSE i \in DOMAIN known :
                          \A j \in DOMAIN known : FLe(known[i], known[j])
             IN  <<known[k]>> \o
                 SortedValues([j \in 1..(Len(known) - 1) |->
                                  IF j < k THEN known[j] ELSE known[j + 1]])

\* Series.quantile(k / NumEstratos) of the sorted values: linear interpolation
\* between the two values around position (k / NumEstratos) * (n - 1)
Quantile(sorted, k) ==
    LET pos == k * (Len(sorted) - 1)
        lo == pos \div NumEstratos
        rem == pos % NumEstratos
    IN  IF rem = 0 THEN sorted[lo + 1]
        ELSE FAdd(sorted[lo + 1],
                  FMul(Num(rem, NumEstratos),
                       FSub(sorted[lo + 2], sorted[lo + 1])))

\* the bin edges of pd.qcut(values, q=NumEstratos)
BinEdges(values) ==
    [k \in 1..(NumEstratos + 1) |-> Quantile(SortedValues(values), k - 1)]

\* qcut raises ValueError("Bin edges must be unique") otherwise
EdgesUnique(bins) == \A k \in 1..NumEstratos : bins[k] # bins[k + 1]

\* the label of x: the first bin (bins[j], bins[j + 1]] that holds it, the
\* lowest edge included; a NaN has no label
LabelOf(x, bins) ==
    IF IsNaN(x) THEN "NaN"
    ELSE Labels[CHOOSE j \in 1..NumEstratos :
                    /\ FLe(x, bins[j + 1])
                    /\ \A h \in 1..(j - 1) : ~FLe(x, bins[h + 1])]

\* pd.qcut(values, q=3, labels=['Baixa', 'Média', 'Alta'])
qcut(values) ==
    [i \in DOMAIN values |-> LabelOf(values[i], BinEdges(values))]

\* main, lines 155-158; the ValueError of qcut ends the script
Estratos ==
    /\ pc = "updated"
    /\ IF EdgesUnique(BinEdges(Column(df, "Criticidade")))
       THEN /\ df' = SetColumn(df, "Estrato", qcut(Column(df, "Criticidade")))
            /\ pc' = "stratified_sampling"
       ELSE /\ df' = df
            /\ pc' = "ValueError"
    /\ UNCHANGED <<campovars, amostravars, coletavars, painelvars>>
    /\ UNCHANGED <<historico, cenarios, ativos_criticos, ativos_top, it, weights>>

\* the rows of a stratum, in the order of the frame
Stratum(frame, strata_column, value) ==
    SelectSeq(frame, LAMBDA r : r[strata_column] = value)

\* the number of rows that have a stratum
Labelled(frame, strata_column) ==
    Len(SelectSeq(frame, LAMBDA r : r[strata_column] # "NaN"))

\* round() that cuts the fraction off
RoundDown(a, b) == a \div b

\* round() of the Series a / b: to the nearest integer, a tie to the even one
RoundHalfEven(a, b) ==
    LET q == a \div b
        r == a % b
    IN  IF 2 * r < b THEN q
        ELSE IF 2 * r > b THEN q + 1
        ELSE IF q % 2 = 0 THEN q ELSE q + 1

\* program constant: random_state=42
RandomState == 42

\* an allocation that asks no stratum for anything
StrataSampleSizeNone(frame, strata_column, value, size) == 0

\* (strata * sample_size).round().astype(int) for one stratum
StrataSampleSize(frame, strata_column, value, size) ==
    RoundHalfEven(Len(Stratum(frame, strata_column, value)) * size,
                  Labelled(frame, strata_column))

Min(a, b) == IF a < b THEN a ELSE b

\* The orders in which value_counts lists the strata: by non-increasing
\* count, strata of equal count in any order.
StrataOrders(frame, strata_column) ==
    {o \in Permutations(DOMAIN Labels) :
        \A i, j \in DOMAIN Labels :
            i < j => Len(Stratum(frame, strata_column, Labels[o[i]]))
                        >= Len(Stratum(frame, strata_column, Labels[o[j]]))}

\* The generators that agree with what the one seeded with 42 has been seen
\* to draw: sample(n, random_state=42) of a frame of L rows takes the rows at
\* the first n positions of a permutation of 1..L that depends on the seed
\* and on L alone.
Generators(seen, lengths) ==
    {g \in [DOMAIN seen \cup lengths -> UNION {Permutations(1..L) : L \in lengths}
                                            \cup Range(seen)] :
        /\ \A L \in DOMAIN seen : g[L] = seen[L]
        /\ \A L \in lengths : g[L] \in Permutations(1..L)}

\* a draw with replacement that takes the first position again and again
SampleRepeating(g, rows, n) ==
    [k \in 1..n |-> rows[g[Len(rows)][1]]]

\* df[...].sample(n, random_state=42) under the generator g
SampleWith(g, rows, n) ==
    [k \in 1..n |-> rows[g[Len(rows)][k]]]

\* stratified_sampling, with the strata listed in the order o
stratified_sampling(frame, strata_column, size, o, g) ==
    Flatten([k \in DOMAIN o |->
        LET rows == Stratum(frame, strata_column, Labels[o[k]])
            n_samples == StrataSampleSize(frame, strata_column,
                                          Labels[o[k]], size)
        IN  SampleWith(g, rows, Min(n_samples, Len(rows)))])

\* the sample sizes tried at line 162: the one of the script and small ones
SampleSizes == 1..MaxAtivos \cup {SampleSize}

\* main, lines 160-163.  The script writes neither the matrix nor an
\* existing feedback file, so a later run, with the sample size of line 162
\* adjusted or not, reaches this call with the same frame: the step repeats.
StratifiedSampling ==
    /\ pc = "stratified_sampling"
    /\ \E n \in SampleSizes :
       \E o \in StrataOrders(df, "Estrato") :
       \E g \in Generators(rng,
                 {Len(Stratum(df, "Estrato", Labels[k])) : k \in DOMAIN Labels}
                     \ {0}) :
          /\ sample_size' = n
          /\ sampled_df' = stratified_sampling(df, "Estrato", n, o, g)
          /\ rng' = g
    /\ UNCHANGED <<campovars, coletavars, painelvars>>
    /\ UNCHANGED <<historico, df, cenarios, ativos_criticos, ativos_top, pc, it, weights>>

NextAmostra == LoadMatrix \/ UpdateSampling \/ Estratos \/ StratifiedSampling

SpecAmostra == InitAmostra /\ [][NextAmostra]_vars

\* the scripts that join the matrix with another table on the asset id
SpecJoin ==
    (InitCampo \/ InitAmostra)
        /\ [][NextCampo \/ LoadMatrix \/ UpdateSampling]_vars

\* the scripts that compute a score from a weight dict
SpecScore ==
    (InitMatriz \/ InitCampo) /\ [][NextMatriz \/ NextCampo]_vars

(***************************************************************************)
(* ep2_sp1_coleta_disp_dados.py: the three sources are concatenated and     *)
(* duplicate rows are dropped.                                              *)
(***************************************************************************)
\* cells of the column Frequencia_Falhas of a source
FonteSamples == { Dec(2), Dec(5) }

\* a source that lists asset A001 on two identical rows
FonteRepetida ==
    File(<< [ID_Ativo |-> 1, Frequencia_Falhas |-> Dec(2)],
            [ID_Ativo |-> 1, Frequencia_Falhas |-> Dec(2)] >>)

\* the contents of one source file
FonteFiles ==
    {FonteRepetida} \cup
    UNION {{File(TableOf(S, [id \in S |-> [Frequencia_Falhas |-> v[id]]])) :
               v \in [S -> FonteSamples]} :
           S \in NonEmptySubsets(Ids)}

\* csv_path, xlsx_path, json_path in the order of the list of line 60
Fontes == <<"csv", "xlsx", "json">>

\* consolidated_df.drop_duplicates(): the first of the rows that are equal in
\* every column is kept
RECURSIVE DropDuplicates(_)
DropDuplicates(frame) ==
    IF frame = <<>> THEN <<>>
    ELSE LET init == DropDuplicates(SubSeq(frame, 1, Len(frame) - 1))
             last == frame[Len(frame)]
         IN  IF \E i \in DOMAIN init : init[i] = last THEN init
             ELSE Append(init, last)

\* pd.concat([df_csv, df_xlsx, df_json], ignore_index=True)
Concat(files) == Flatten([k \in DOMAIN Fontes |-> files[Fontes[k]].rows])

InitColeta ==
    /\ script = "ep2_sp1"
    /\ fontes \in [Range(Fontes) -> FonteFiles \cup {NoFile}]
    /\ consolidated_df = <<>>
    /\ pc = "load_and_consolidate_data"
    /\ field_file = NoFile
    /\ matriz_file = NoFile
    /\ feedback_file = NoFile
    /\ consolidated = <<>>
    /\ resultado = <<>>
    /\ AmostraIdle
    /\ PainelIdle
    /\ it = 1
    /\ historico = <<>>
    /\ df = <<>>
    /\ cenarios = <<>>
    /\ ativos_criticos = <<>>
    /\ ativos_top = <<>>
    /\ weights = <<>>

\* load_and_consolidate_data called by main
LoadAndConsolidate ==
    /\ pc = "load_and_consolidate_data"
    /\ IF \E f \in Range(Fontes) : ~fontes[f].exists
       THEN /\ consolidated_df' = consolidated_df
            /\ pc' = "FileNotFoundError"
       ELSE /\ consolidated_df' = DropDuplicates(Concat(fontes))
            /\ pc' = "to_csv"
    /\ UNCHANGED <<fontes, campovars, amostravars, painelvars>>
    /\ UNCHANGED <<historico, df, cenarios, ativos_criticos, ativos_top, it, weights>>

NextColeta == LoadAndConsolidate

SpecColeta == InitColeta /\ [][NextColeta]_vars

(***************************************************************************)
(* Properties of ep1_sp2_mod_criticidade.py.                               *)
(***************************************************************************)
Normalized == pc # "normalize"
Scored == pc \in {"ranking", "top", "done"}

\* the column of the loaded dataset has two different values
NonDegenerate(col) ==
    \E i, j \in DOMAIN historico : historico[i][col] # historico[j][col]

HoldsMin(col, i) ==
    \A j \in DOMAIN historico : FLe(historico[i][col], historico[j][col])

HoldsMax(col, i) ==
    \A j \in DOMAIN historico : FGe(historico[i][col], historico[j][col])

\* C2: after normalisation, every attribute whose minimum and maximum over the
\* loaded dataset differ has all its normalised values in [0, 1], exactly 0 on
\* every row holding the column minimum and exactly 1 on every row holding the
\* column maximum.
NormalizationRange ==
    Normalized =>
        \A col \in Range(RawColumns) :
            NonDegenerate(col) =>
                \A i \in DOMAIN df :
                    LET v == df[i][NormName(col)]
                    IN  /\ IsNum(v)
                        /\ FLe(FZero, v) /\ FLe(v, FOne)
                        /\ HoldsMin(col, i) => v = FZero
                        /\ HoldsMax(col, i) => v = FOne

\* a normalised column whose minimum over the dataset is positive, so that
\* a row with a positive raw value is mapped to 0
NormalizationRangeWitness ==
    /\ Normalized
    /\ \E col \in Range(RawColumns) :
          /\ NonDegenerate(col)
          /\ \A i \in DOMAIN historico : FLt(FZero, historico[i][col])
          /\ \E i \in DOMAIN df : df[i][NormName(col)] = FZero
          /\ \E i \in DOMAIN df : df[i][NormName(col)] = FOne

\* the frames produced by the ranking steps, each with its score column
Rankings ==
    {<<ativos_criticos[k], CenarioColumn(cenarios[k])>> :
        k \in DOMAIN ativos_criticos}
    \cup (IF pc = "done" THEN {<<ativos_top, "Criticidade">>} ELSE {})

Descending(frame, col) ==
    \A a, b \in DOMAIN frame :
        a < b =>
            /\ IsNaN(frame[a][col]) => IsNaN(frame[b][col])
            /\ ~IsNaN(frame[b][col]) => FGe(frame[a][col], frame[b][col])

TiesInRowOrder(frame, col) ==
    \A a, b \in DOMAIN frame :
        (a < b /\ frame[a][col] = frame[b][col]) =>
            frame[a]["ID_Ativo"] < frame[b]["ID_Ativo"]

\* the frame holds the first TopK rows of a reordering of df
IsTopOfDf(frame) ==
    /\ Len(frame) = (IF Len(df) < TopK THEN Len(df) ELSE TopK)
    /\ \A a \in DOMAIN frame : frame[a] \in Range(df)
    /\ \A a, b \in DOMAIN frame : a # b => frame[a] # frame[b]

\* C3, as stated: every ranking is in non-increasing order of the score and
\* rows with equal scores keep the relative order of their original rows.
RankingStable ==
    \A r \in Rankings : Descending(r[1], r[2]) /\ TiesInRowOrder(r[1], r[2])

\* C3, amended: every ranking holds the top rows of df in non-increasing order
\* of the score, rows without a score last; nothing is promised about the
\* relative order of rows with equal scores.
RankingDescending ==
    \A r \in Rankings : Descending(r[1], r[2]) /\ IsTopOfDf(r[1])

\* a finished ranking with two rows that tie and a row that scores lower
RankingWitness ==
    /\ pc = "done"
    /\ \E a, b, c \in DOMAIN ativos_top :
          /\ a < b /\ b < c
          /\ IsNum(ativos_top[a]["Criticidade"])
          /\ ativos_top[a]["Criticidade"] = ativos_top[b]["Criticidade"]
          /\ FGt(ativos_top[b]["Criticidade"], ativos_top[c]["Criticidade"])

\* the scores of one scenario computed on the loaded dataset with no other
\* scenario run before it
ScoreAlone(cenario) ==
    LET frame == NormalizeAll(historico)
    IN  [i \in DOMAIN frame |->
            calcular_criticidade(frame[i], CenarioPesos(cenario))]

\* C7: the scores recorded for a scenario are the same at whatever position of
\* the scenario order it runs: they are the scores of that scenario run alone.
ScenarioIsolation ==
    Scored =>
        \A k \in DOMAIN cenarios :
            Column(df, CenarioColumn(cenarios[k])) = ScoreAlone(cenarios[k])

\* both scenarios computed, second in the order "Cenário 1", with scores that
\* differ between the two scenarios
ScenarioIsolationWitness ==
    /\ Scored
    /\ cenarios[2] = "Cenário 1"
    /\ \E i \in DOMAIN df :
          /\ IsNum(df[i]["Criticidade_Cenário 1"])
          /\ df[i]["Criticidade_Cenário 1"] # df[i]["Criticidade_Cenário 2"]

\* C8: a scenario step changes no cell of any column that exists before it
\* (the normalised attributes, the primary score, the scenarios computed so
\* far) and no row.
ScenarioFrame ==
    [][pc = "cenarios" =>
        /\ DOMAIN df' = DOMAIN df
        /\ \A i \in DOMAIN df :
              \A c \in DOMAIN df[i] : df'[i][c] = df[i][c]]_vars

\* a scenario was computed whose scores differ from the primary score
ScenarioFrameWitness ==
    /\ pc = "cenarios" /\ it = 2
    /\ \E i \in DOMAIN df :
          /\ IsNum(df[i]["Criticidade"])
          /\ df[i][CenarioColumn(cenarios[1])] # df[i]["Criticidade"]


(***************************************************************************)
(* Properties of ep3_sp1_norm_pond_dados.py / ep3_sp2_matriz_priorizacao.py *)
(***************************************************************************)
RECURSIVE ProdInts(_)
ProdInts(s) == IF s = <<>> THEN 1 ELSE s[1] * ProdInts(Tail(s))

RECURSIVE SumInts(_)
SumInts(s) == IF s = <<>> THEN 0 ELSE s[1] + SumInts(Tail(s))

\* the weighted sum of the cells of a row as one fraction over the product of
\* all denominators
WeightedSum(row, ws) ==
    LET den == [k \in DOMAIN ws |-> row[ws[k][1]].d * ws[k][2].d]
        all == ProdInts(den)
        terms == [k \in DOMAIN ws |->
                     row[ws[k][1]].n * ws[k][2].n * (all \div den[k])]
    IN  Num(SumInts(terms), all)

\* the normalised attributes the score is computed from
Normalizada == normalize_columns(historico)

\* C1: the score of every asset is the sum over the attributes named in the
\* weight dict of weight times normalised value, not divided by the sum of the
\* weights (NaN when one of these values is NaN).
ScoreIsWeightedSum ==
    pc = "saved" =>
        \A i \in DOMAIN df :
            IF \E v \in WeightVars(weights) : IsNaN(Normalizada[i][v])
            THEN IsNaN(df[i]["Criticidade"])
            ELSE df[i]["Criticidade"] = WeightedSum(Normalizada[i], weights)

\* a matrix computed with weights that do not sum to 1, with a positive score
ScoreIsWeightedSumWitness ==
    /\ pc = "saved"
    /\ SumSeq([k \in DOMAIN weights |-> weights[k][2]]) # FOne
    /\ \E i \in DOMAIN df : FGt(df[i]["Criticidade"], FZero)


(***************************************************************************)
(* Properties of the field-data scripts.                                    *)
(***************************************************************************)
Consolidated ==
    script \in {"ep5_sp2", "ep5_sp3"} /\ pc \notin {"consolidate_data", "KeyError"}

\* C4: for every asset with a positive computed score and a field measurement
\* the discrepancy is |score - measurement| / score, and the recommendation is
\* "Reavaliar" exactly when the discrepancy is strictly greater than 0.1,
\* "Manter" otherwise.
DiscrepancyRule ==
    Consolidated =>
        \A i \in DOMAIN consolidated :
            LET cm == consolidated[i]["Criticidade_Matriz"]
                med == consolidated[i]["Medicoes"]
                diff == AbsInt(cm.n * med.d - med.n * cm.d)
            IN  (IsNum(cm) /\ cm.n > 0 /\ IsNum(med)) =>
                    /\ consolidated[i]["Discrepancia"] = Num(diff, med.d * cm.n)
                    /\ consolidated[i]["Ajustes_Propostos"] =
                          (IF 10 * diff > med.d * cm.n
                           THEN "Reavaliar" ELSE "Manter")

\* a discrepancy of exactly 0.1, recommended "Manter", next to a larger one,
\* recommended "Reavaliar"
DiscrepancyRuleWitness ==
    /\ Consolidated
    /\ \E i \in DOMAIN consolidated :
          /\ FGt(consolidated[i]["Criticidade_Matriz"], FZero)
          /\ consolidated[i]["Discrepancia"] = Dec(1)
          /\ consolidated[i]["Ajustes_Propostos"] = "Manter"
    /\ \E i \in DOMAIN consolidated :
          /\ FGt(consolidated[i]["Criticidade_Matriz"], FZero)
          /\ FGt(consolidated[i]["Discrepancia"], Dec(1))
          /\ consolidated[i]["Ajustes_Propostos"] = "Reavaliar"

\* C5: an asset that lacks the computed score or the field measurement is in
\* the consolidated table with no discrepancy and no recommendation.
MissingDataNoRecommendation ==
    Consolidated =>
        /\ IdsOf(matriz_file.rows) \cup IdsOf(field_file.rows)
              \subseteq IdsOf(consolidated)
        /\ \A i \in DOMAIN consolidated :
              (IsNaN(consolidated[i]["Criticidade_Matriz"])
                  \/ IsNaN(consolidated[i]["Medicoes"])) =>
                      /\ IsNaN(consolidated[i]["Discrepancia"])
                      /\ consolidated[i]["Ajustes_Propostos"]
                            \notin {"Reavaliar", "Manter"}

\* the score of a row as the weighted sum of the attributes the row holds
ScoreOfRow(r) ==
    FAdd(FAdd(FMul(Dec(4), r["Frequencia_Falhas"]),
              FMul(Dec(4), r["Impacto_DEC_FEC"])),
         FMul(Dec(2), r["Ponderacao_Total"]))

\* the ids of the matrix that a row of the feedback file overrides
Overridden ==
    IF feedback_file.exists
    THEN IdsOf(feedback_file.rows) \cap IdsOf(matriz_file.rows)
    ELSE {}

\* C6: after consolidate_data has computed the scores of a matrix with a
\* feedback table supplied, the score of an asset with an overridden attribute
\* is the weighted sum of its attribute values after the override.
ScoreFollowsOverride ==
    (Consolidated /\ script = "ep5_sp3"
        /\ "Criticidade_Matriz" \notin Columns(matriz_file.rows)) =>
        \A i \in DOMAIN consolidated :
            consolidated[i]["ID_Ativo"] \in Overridden =>
                consolidated[i]["Criticidade_Matriz"]
                    = ScoreOfRow(consolidated[i])

\* the cells of the columns cols of the rows of id in frame
Cells(frame, id, cols) ==
    {[c \in cols |-> r[c]] : r \in Range(RowsWithId(frame, id))}

\* a frame joined from left and right holds an id of one source only with
\* the cells of that source and NaN in the columns of the other source
OneSourceRows(frame, left, right) ==
    LET lc == Columns(left) \ {"ID_Ativo"}
        rc == Columns(right) \ {"ID_Ativo"}
    IN  /\ \A id \in IdsOf(frame) \ IdsOf(right) :
              /\ Cells(frame, id, rc) = {NaNRow(rc)}
              /\ Cells(frame, id, lc) = Cells(left, id, lc)
        /\ \A id \in IdsOf(frame) \ IdsOf(left) :
              /\ Cells(frame, id, lc) = {NaNRow(lc)}
              /\ Cells(frame, id, rc) = Cells(right, id, rc)

\* the matrix frame consolidate_data joins: scored, feedback applied
MatrizJoined ==
    LET scored == WithScore(matriz_file.rows)
    IN  IF script = "ep5_sp3" THEN apply_feedback(scored, feedback_file)
        ELSE scored

ConsolidatedIsOuter ==
    Consolidated =>
        /\ IdsOf(consolidated)
              = IdsOf(matriz_file.rows) \cup IdsOf(field_file.rows)
        /\ OneSourceRows(consolidated, MatrizJoined, field_file.rows)

Updated == script = "ep4_sp1" /\ pc = "updated"

\* C9, as stated: both consolidate_data and update_sampling_based_on_feedback
\* keep every asset id of either source.
JoinIsOuter ==
    /\ ConsolidatedIsOuter
    /\ Updated =>
          IdsOf(df) = IdsOf(matriz_file.rows) \cup IdsOf(feedback_file.rows)

\* C9, amended: consolidate_data keeps every asset id of either source, an id
\* of one source only with NaN in the other source's columns;
\* update_sampling_based_on_feedback keeps exactly the asset ids of the
\* matrix, the ones without feedback with NaN in the feedback columns, and
\* drops the ids that only the feedback has.
JoinOuterAndLeft ==
    /\ ConsolidatedIsOuter
    /\ Updated =>
          /\ IdsOf(df) = IdsOf(matriz_file.rows)
          /\ \A i \in DOMAIN df :
                df[i]["ID_Ativo"] \notin IdsOf(feedback_file.rows) =>
                    /\ \A c \in Columns(feedback_file.rows) \ {"ID_Ativo"} :
                          IsNaN(df[i][c])
                    /\ df[i]["Criticidade"] = matriz_file.rows[i]["Criticidade"]

\* a consolidated table with an asset of the matrix only and one of the field
\* data only
JoinOuterWitness ==
    /\ Consolidated
    /\ IdsOf(matriz_file.rows) \ IdsOf(field_file.rows) # {}
    /\ IdsOf(field_file.rows) \ IdsOf(matriz_file.rows) # {}

\* an updated matrix with an asset that has no feedback, next to feedback for
\* an asset that is not in the matrix
JoinLeftWitness ==
    /\ Updated
    /\ IdsOf(matriz_file.rows) \ IdsOf(feedback_file.rows) # {}
    /\ IdsOf(feedback_file.rows) \ IdsOf(matriz_file.rows) # {}

\* the rows perform_inference trains on
Inspected ==
    DropNa(DropNa(consolidated, "Medicoes"), "Criticidade_Matriz")

\* C10: with no inspected asset, every asset in the output of
\* perform_inference has no number in the field-measurement column.
NoFabricatedMeasurement ==
    (script = "ep5_sp2" /\ pc = "done" /\ Inspected = <<>>) =>
        \A i \in DOMAIN resultado[1] : ~IsNum(resultado[1][i]["Medicoes"])

(***************************************************************************)
(* Error handling of normalisation and scoring.                             *)
(***************************************************************************)
\* C11: an attribute whose minimum equals its maximum over the loaded dataset
\* is not normalised to NaN: the script does not get past the normalisation
\* with a NaN in the normalised column of such an attribute.
DegenerateRangeRejected ==
    Normalized =>
        \A col \in Range(RawColumns) :
            ~NonDegenerate(col) =>
                \A i \in DOMAIN df : ~IsNaN(df[i][NormName(col)])

\* the matrix script has run calculate_criticality
MatrizRun == script = "none" /\ weights # <<>> /\ pc \in {"saved", "erro"}

ScoringIsPure ==
    [][pc = "run_server" => df' = df]_vars

(***************************************************************************)
(* Algebra of the score.                                                    *)
(***************************************************************************)
\* scalars a of w1 + a * w2
Scalars == { Num(-1, 1), FZero, Num(1, 2), Num(2, 1) }

\* two weight dicts over the same attributes, in the same order
SameAttributes(w1, w2) ==
    /\ Len(w1) = Len(w2)
    /\ \A k \in DOMAIN w1 : w1[k][1] = w2[k][1]

\* the weight dict w1 + a * w2
WeightsPlus(w1, a, w2) ==
    [k \in DOMAIN w1 |-> <<w1[k][1], FAdd(w1[k][2], FMul(a, w2[k][2]))>>]

\* the weight dict w1 + a * w2 of the field-data scripts
CampoPlus(w1, a, w2) ==
    [c \in DOMAIN w1 |-> FAdd(w1[c], FMul(a, w2[c]))]

\* consolidate_data has just returned the scores it computed from the rows as
\* they are; no later step of main assigns consolidated_data
ScoredHere ==
    /\ script \in {"ep5_sp2", "ep5_sp3"}
    /\ pc \in {"test_scenarios", "perform_inference"}
    /\ it = 1
    /\ resultado = <<>>
    /\ "Criticidade_Matriz" \notin Columns(matriz_file.rows)
    /\ ~feedback_file.exists

\* C14: the score is linear in the weights.  With w1 the weights the score
\* was computed with, every other weight dict w2 over the same attributes and
\* every scalar a: score(w1) + a * score(w2) = score(w1 + a * w2), for every
\* asset.
ScoreLinear ==
    /\ (script = "none" /\ pc = "saved") =>
          LET normalizada == Normalizada
          IN  \A w2 \in WeightConfigs :
                  SameAttributes(weights, w2) =>
                      LET other == calculate_criticality(normalizada, w2)
                      IN  \A a \in Scalars :
                              LET both == calculate_criticality(
                                              normalizada,
                                              WeightsPlus(weights, a, w2))
                              IN  \A i \in DOMAIN df :
                                      FAdd(df[i]["Criticidade"],
                                           FMul(a, other[i]["Criticidade"]))
                                      = both[i]["Criticidade"]
    /\ ScoredHere =>
          \A k \in DOMAIN Scenarios :
              LET other == calculate_criticidade_matriz(consolidated,
                                                        Scenarios[k])
              IN  \A a \in Scalars :
                      LET both == calculate_criticidade_matriz(
                                      consolidated,
                                      CampoPlus(WeightsCampo, a, Scenarios[k]))
                      IN  \A i \in DOMAIN consolidated :
                              FAdd(consolidated[i]["Criticidade_Matriz"],
                                   FMul(a, other[i]["Criticidade_Matriz"]))
                              = both[i]["Criticidade_Matriz"]

\* a matrix scored with the weights of the script, in which an asset has a
\* positive score that the weights 0.5 everywhere change
ScoreLinearWitness ==
    /\ script = "none" /\ pc = "saved"
    /\ weights = WeightsMatriz
    /\ \E w2 \in WeightConfigs \ {weights} :
          /\ SameAttributes(weights, w2)
          /\ \E i \in DOMAIN df :
                /\ FGt(df[i]["Criticidade"], FZero)
                /\ calculate_criticality(Normalizada, w2)[i]["Criticidade"]
                      # df[i]["Criticidade"]

(***************************************************************************)
(* Properties of the stratified sampling.                                   *)
(***************************************************************************)
\* stratified_sampling has returned a sample of the stratified frame
Sampled == script = "ep4_sp1" /\ pc = "stratified_sampling" /\ sample_size > 0

\* the rows of a frame that are in the stratum
InStratum(frame, label) ==
    Cardinality({i \in DOMAIN frame : frame[i]["Estrato"] = label})

\* r is share * sample_size rounded to the nearest integer, where the share
\* of the stratum is c of the population
IsRounded(r, c, population) ==
    LET twice == 2 * AbsInt(r * population - c * sample_size)
    IN  \/ twice < population
        \/ twice = population /\ r % 2 = 0

\* C15: from each stratum exactly min(round(share * sample_size), stratum
\* size) assets are drawn, round being the rounding to the nearest integer (a
\* tie goes to the even one); a stratum the rounded allocation exceeds is
\* taken whole.
StratumAllocation ==
    Sampled =>
        \A k \in DOMAIN Labels :
            LET c == InStratum(df, Labels[k])
            IN  \E r \in 0..(sample_size + 1) :
                    /\ IsRounded(r, c, Len(df))
                    /\ InStratum(sampled_df, Labels[k]) = Min(r, c)

\* the sample size of the script on a small population: every stratum is
\* asked for more assets than it has and is taken whole
StratumAllocationWitness ==
    /\ Sampled
    /\ sample_size = SampleSize
    /\ Len(sampled_df) = Len(df)
    /\ \E k \in DOMAIN Labels :
          /\ InStratum(df, Labels[k]) > 0
          /\ InStratum(df, Labels[k]) * sample_size > InStratum(df, Labels[k]) * Len(df)

\* C16: when the sample size asked does not exceed the population, the size
\* of the sample differs from it by at most the number of strata; strata of
\* 30, 50 and 20 assets asked for 50 are allocated 15, 25 and 10.
SampleTotal ==
    /\ RoundHalfEven(30 * 50, 100) = 15
    /\ RoundHalfEven(50 * 50, 100) = 25
    /\ RoundHalfEven(20 * 50, 100) = 10
    /\ (Sampled /\ sample_size <= Len(df)) =>
          AbsInt(Len(sampled_df) - sample_size) <= NumEstratos

\* a sample whose size is not the one asked, which did not exceed the
\* population
SampleTotalWitness ==
    /\ Sampled
    /\ sample_size <= Len(df)
    /\ Len(sampled_df) # sample_size

\* no asset twice, every asset from the frame with its stratum
SampleFromStrata ==
    /\ \A i, j \in DOMAIN sampled_df :
          i # j => sampled_df[i]["ID_Ativo"] # sampled_df[j]["ID_Ativo"]
    /\ \A i \in DOMAIN sampled_df : \E j \in DOMAIN df : sampled_df[i] = df[j]

\* the numbers among the arguments of stratified_sampling(df, 'Estrato',
\* sample_size)
CallerSupplied == {sample_size}

Stratified ==
    script = "ep4_sp1" /\ pc \in {"stratified_sampling", "ValueError"}

\* C18: whatever the scores, qcut gives every asset one of the bands Baixa,
\* Média, Alta, an asset of a higher band having a score at least that of
\* every asset of a lower band.
BandsDefined ==
    Stratified =>
        /\ pc # "ValueError"
        /\ \A i \in DOMAIN df :
              \E k \in DOMAIN Labels : df[i]["Estrato"] = Labels[k]
        /\ \A i, j \in DOMAIN df :
              \A k, h \in DOMAIN Labels :
                  (df[i]["Estrato"] = Labels[k] /\ df[j]["Estrato"] = Labels[h]
                      /\ k < h)
                  => FLe(df[i]["Criticidade"], df[j]["Criticidade"])

\* C19: an asset whose computed score is exactly 0 gets no numeric
\* discrepancy, neither a finite number nor infinity, and neither of the
\* recommendations "Reavaliar" and "Manter", whatever its measurement.
ZeroScoreUndefined ==
    Consolidated =>
        \A i \in DOMAIN consolidated :
            consolidated[i]["Criticidade_Matriz"] = FZero =>
                /\ ~IsNum(consolidated[i]["Discrepancia"])
                /\ ~IsInf(consolidated[i]["Discrepancia"])
                /\ consolidated[i]["Ajustes_Propostos"]
                      \notin {"Reavaliar", "Manter"}

\* the frame lists an asset on two rows
HasDuplicateId(frame) ==
    \E i, j \in DOMAIN frame : i # j /\ frame[i]["ID_Ativo"] = frame[j]["ID_Ativo"]

\* C20: when the matrix or the field table lists an asset on two or more
\* rows, consolidate_data ends with a join key error and yields no table;
\* the consolidated table never has several rows for one asset.
DuplicateIdRejected ==
    (script \in {"ep5_sp2", "ep5_sp3"} /\ pc # "consolidate_data") =>
        /\ (HasDuplicateId(matriz_file.rows) \/ HasDuplicateId(field_file.rows))
              => (pc = "JoinKeyConflictError" /\ consolidated = <<>>)
        /\ ~HasDuplicateId(consolidated)

(***************************************************************************)
(* Properties of ep2_sp1_coleta_disp_dados.py.                              *)
(***************************************************************************)
\* load_and_consolidate_data has returned
Coletado == script = "ep2_sp1" /\ pc = "to_csv"

\* C21: after the sources are concatenated and duplicates removed, every
\* asset id is on at most one row of the consolidated dataset, also when the
\* sources give different values for an asset.
ConsolidatedIdsUnique == Coletado => ~HasDuplicateId(consolidated_df)

(***************************************************************************)
(* Properties of ep3_sp1_norm_pond_dados.py.                                *)
(***************************************************************************)
\* the min-max scaling of cell i of a column of the loaded dataset
Scaled(column, i) ==
    LET values == {historico[j][column] : j \in DOMAIN historico}
        lo == CHOOSE x \in values : \A y \in values : FLe(x, y)
        hi == CHOOSE x \in values : \A y \in values : FLe(y, x)
    IN  FDiv(FSub(historico[i][column], lo), FSub(hi, lo))

\* normalize_columns has returned and the matrix has not added its score yet
NormalizedFrame == pc = "calculate_criticality"

\* C22: normalize_columns returns for every dataset; a listed attribute that
\* is no column of the dataset is skipped and is no column of the result,
\* every listed attribute that is a column is scaled, so the columns of the
\* result tell the attributes that were computed from the ones skipped.
SkippedOrComputed ==
    NormalizedFrame =>
        /\ Columns(df) = Columns(historico)
        /\ \A k \in DOMAIN columns_to_normalize :
              LET column == columns_to_normalize[k]
              IN  IF column \in Columns(historico)
                  THEN /\ column \in Columns(df)
                       /\ \A i \in DOMAIN df :
                             df[i][column] = Scaled(column, i)
                  ELSE column \notin Columns(df)

\* a dataset without Tempo_Operacao, whose later attributes are scaled: an
\* asset at the maximum of Impacto_DEC_FEC has 1 where the file had more
SkippedOrComputedWitness ==
    /\ NormalizedFrame
    /\ "Tempo_Operacao" \notin Columns(df)
    /\ \E i \in DOMAIN df :
          /\ df[i]["Impacto_DEC_FEC"] = FOne
          /\ historico[i]["Impacto_DEC_FEC"] # FOne

(***************************************************************************)
(* Properties of perform_inference, test_scenarios and apply_feedback.      *)
(***************************************************************************)
\* perform_inference has been called and has ended
Inferred ==
    script = "ep5_sp2"
        /\ pc \notin {"consolidate_data", "KeyError", "perform_inference"}

\* C23: whatever the number of inspected assets and whatever the assets that
\* were not inspected, perform_inference ends by returning a table.
InferenceAlwaysReturns ==
    Inferred => (pc = "done" /\ Len(resultado) = 1)

\* C24: a scenario whose scoring fails leaves the rankings of the earlier
\* scenarios as they were written and the consolidated table as it was; no
\* step of test_scenarios changes either.
ScenarioFailureIsolated ==
    [][pc = "test_scenarios" =>
          /\ consolidated' = consolidated
          /\ Len(resultado') >= Len(resultado)
          /\ \A k \in DOMAIN resultado : resultado'[k] = resultado[k]
          /\ pc' = "test_scenarios_KeyError" => resultado' = resultado]_vars

\* the third scenario has failed after two rankings were written
ScenarioFailureWitness ==
    /\ pc = "test_scenarios_KeyError"
    /\ it = 3
    /\ Len(resultado) = 2

\* C25: when the matrix file or the field-data file is missing, the loading
\* of consolidate_data fails: no template file is written and no table is
\* consolidated from template rows.
MissingInputFails ==
    [][(pc = "consolidate_data"
            /\ (~field_file.exists \/ ~matriz_file.exists)) =>
          /\ field_file' = field_file
          /\ matriz_file' = matriz_file
          /\ consolidated' = <<>>
          /\ pc' \notin {"test_scenarios", "perform_inference"}]_vars

(***************************************************************************)
(* Properties of the dashboard under overlapping callbacks.                 *)
(***************************************************************************)
\* the score of a row under the slider positions of a call
ScoreUnder(r, pesos_call) ==
    FAdd(FMul(r["Frequencia_Falhas_Norm"], pesos_call[1]),
         FMul(r["Impacto_DEC_FEC_Norm"], pesos_call[2]))

\* C26: the list each callback returns is computed from its own weights:
\* every score in it is the weighted sum under the slider positions of that
\* callback, also when another callback ran in between.
CallbackUsesOwnWeights ==
    \A c \in DOMAIN callbacks :
        callbacks[c].pc = "returned" =>
            \A i \in DOMAIN callbacks[c].ativos_criticos :
                LET r == callbacks[c].ativos_criticos[i]
                    own == ScoreUnder(r, callbacks[c].pesos)
                IN  IF IsNaN(own) THEN IsNaN(r["Criticidade"])
                    ELSE r["Criticidade"] = own

\* the discrepancy and the recommendation of the row are the ones of its own
\* score and measurement
RowConsistent(r) ==
    LET cm == r["Criticidade_Matriz"]
        med == r["Medicoes"]
        diff == AbsInt(cm.n * med.d - med.n * cm.d)
    IN  (IsNum(cm) /\ cm.n > 0 /\ IsNum(med)) =>
            /\ r["Discrepancia"] = Num(diff, med.d * cm.n)
            /\ r["Ajustes_Propostos"] =
                  (IF 10 * diff > med.d * cm.n THEN "Reavaliar" ELSE "Manter")

\* C27: in the consolidated table, in every scenario ranking and in the
\* inference output, a row with a positive score and a measurement has the
\* discrepancy |score - measurement| / score of that score and measurement
\* and the recommendation of that discrepancy.
WrittenRowsConsistent ==
    Consolidated =>
        /\ \A i \in DOMAIN consolidated : RowConsistent(consolidated[i])
        /\ \A k \in DOMAIN resultado :
              \A i \in DOMAIN resultado[k] : RowConsistent(resultado[k][i])

\* C28: the table perform_inference returns lists every asset of the
\* consolidated table once, and an asset that has a measurement keeps it.
InferenceKeepsAssets ==
    (script = "ep5_sp2" /\ pc = "done" /\ ~HasDuplicateId(consolidated)) =>
        /\ IdsOf(resultado[1]) = IdsOf(consolidated)
        /\ ~HasDuplicateId(resultado[1])
        /\ \A i \in DOMAIN consolidated :
              ~IsNaN(consolidated[i]["Medicoes"]) =>
                  \E j \in DOMAIN resultado[1] :
                      /\ resultado[1][j]["ID_Ativo"] = consolidated[i]["ID_Ativo"]
                      /\ resultado[1][j]["Medicoes"] = consolidated[i]["Medicoes"]

\* the frame apply_feedback is called with
BeforeFeedback == WithScore(matriz_file.rows)

\* the feedback rows that give a value for the cell (id, c)
FeedbackFor(id, c) ==
    IF feedback_file.exists
    THEN {k \in DOMAIN feedback_file.rows :
             /\ feedback_file.rows[k]["ID_Ativo"] = id
             /\ c \in DOMAIN feedback_file.rows[k]
             /\ c # "ID_Ativo"
             /\ ~IsNaN(feedback_file.rows[k][c])}
    ELSE {}

\* the row r of the matrix after the feedback: a cell for which the feedback
\* gives a value has the value of the last row that gives one
AfterFeedback(r) ==
    [c \in DOMAIN r |->
        LET K == FeedbackFor(r["ID_Ativo"], c)
        IN  IF K = {} THEN r[c]
            ELSE feedback_file.rows[CHOOSE k \in K : \A h \in K : h <= k][c]]

\* the consolidated table of ep5_sp3
Adjusted ==
    script = "ep5_sp3" /\ pc \notin {"consolidate_data", "KeyError"}

\* C29: apply_feedback changes the cells (asset, column) for which the
\* feedback has a row of that asset with a value in that column of the matrix,
\* and nothing else: the other cells, the rows and the columns of the matrix
\* are as before, also when the asset of a feedback row is not in the matrix
\* or no feedback file exists.
FeedbackFrame ==
    Adjusted =>
        LET mc == Columns(BeforeFeedback)
        IN  /\ Columns(consolidated) =
                  mc \cup {"Medicoes", "Discrepancia", "Ajustes_Propostos"}
            /\ {[c \in mc |-> r[c]] :
                  r \in {q \in Range(consolidated) :
                            q["ID_Ativo"] \in IdsOf(BeforeFeedback)}}
                  = {AfterFeedback(r) : r \in Range(BeforeFeedback)}

\* a feedback row for an asset of a matrix without the column
\* Ponderacao_Total: two cells are replaced, the column is not added
FeedbackFrameWitness ==
    /\ Adjusted
    /\ "Ponderacao_Total" \notin Columns(consolidated)
    /\ feedback_file.exists
    /\ \E k \in DOMAIN feedback_file.rows :
          /\ ~IsNaN(feedback_file.rows[k]["Ponderacao_Total"])
          /\ \E i \in DOMAIN consolidated :
                /\ consolidated[i]["ID_Ativo"] = feedback_file.rows[k]["ID_Ativo"]
                /\ consolidated[i]["Frequencia_Falhas"] =
                      feedback_file.rows[k]["Frequencia_Falhas"]
                /\ \E j \in DOMAIN matriz_file.rows :
                      /\ matriz_file.rows[j]["ID_Ativo"] =
                            consolidated[i]["ID_Ativo"]
                      /\ matriz_file.rows[j]["Frequencia_Falhas"] #
                            consolidated[i]["Frequencia_Falhas"]

(***************************************************************************)
(* Range of the scores.                                                     *)
(***************************************************************************)
\* a number of [0, 1]
InUnit(x) == IsNum(x) /\ FLe(FZero, x) /\ FLe(x, FOne)

\* the sum of the weights of a weight dict
WeightTotal(ws) == SumSeq([k \in DOMAIN ws |-> ws[k][2]])

\* C30: with non-negative weights on attributes normalised to [0, 1] the
\* score of every asset is in [0, sum of the weights], 0 for an asset at the
\* minimum of every weighted attribute and the sum of the weights for one at
\* the maximum of every weighted attribute; the discrepancy of an asset with
\* a positive score is never negative.
ScoreInRange ==
    /\ (script = "none" /\ pc = "saved") =>
          \A i \in DOMAIN df :
              (\A v \in WeightVars(weights) : InUnit(df[i][v])) =>
                  /\ FLe(FZero, df[i]["Criticidade"])
                  /\ FLe(df[i]["Criticidade"], WeightTotal(weights))
                  /\ (\A v \in WeightVars(weights) : df[i][v] = FZero)
                        => df[i]["Criticidade"] = FZero
                  /\ (\A v \in WeightVars(weights) : df[i][v] = FOne)
                        => df[i]["Criticidade"] = WeightTotal(weights)
    /\ Consolidated =>
          \A i \in DOMAIN consolidated :
              FGt(consolidated[i]["Criticidade_Matriz"], FZero)
                  => ~FLt(consolidated[i]["Discrepancia"], FZero)

\* a matrix whose weights sum to 0.7, with an asset at the maximum of every
\* weighted attribute that scores 0.7, one at the minimum that scores 0 and
\* one between
ScoreInRangeWitness ==
    /\ script = "none"
    /\ pc = "saved"
    /\ WeightTotal(weights) = Dec(7)
    /\ \E i \in DOMAIN df : df[i]["Criticidade"] = Dec(7)
    /\ \E i \in DOMAIN df : df[i]["Criticidade"] = FZero
    /\ \E i \in DOMAIN df :
          /\ FGt(df[i]["Criticidade"], FZero)
          /\ FLt(df[i]["Criticidade"], Dec(7))

====
